---------------------------- MODULE Spec2Model ----------------------------
(***************************************************************************)
(* A model of github.com/pgaskin/crb: the carver (Carve), the strict      *)
(* bookmark decoder (Decode) and the checksum (CalculateChecksum).        *)
(*                                                                         *)
(* Bytes are the integers 0..255 and byte strings are sequences of them,  *)
(* so that the magic literals, the JSON text and the hashed stream are    *)
(* the ones the Go code handles.  Source offsets are 0-based as in Go;    *)
(* the byte at offset p of a sequence s is s[p + 1].                      *)
(***************************************************************************)
EXTENDS Integers, Sequences, FiniteSets, TLC

(***************************************************************************)
(* Byte-string helpers (Go slices, bytes.HasPrefix, bytes.Contains).      *)
(***************************************************************************)
Min2(a, b) == IF a <= b THEN a ELSE b

\* s[lo:hi] of Go, with 0-based offsets lo <= hi.
Slice(s, lo, hi) == SubSeq(s, lo + 1, hi)

HasPrefix(s, p) == Len(s) >= Len(p) /\ SubSeq(s, 1, Len(p)) = p

\* bytes.Contains(s, sub)
Contains(s, sub) ==
    \E i \in 0..(Len(s) - Len(sub)) : SubSeq(s, i + 1, i + Len(sub)) = sub

RECURSIVE Concat(_)
\* The concatenation of a sequence of byte strings, by halves.
Concat(ss) ==
    IF Len(ss) = 0 THEN <<>>
    ELSE IF Len(ss) = 1 THEN ss[1]
    ELSE Concat(SubSeq(ss, 1, Len(ss) \div 2))
           \o Concat(SubSeq(ss, (Len(ss) \div 2) + 1, Len(ss)))

\* n copies of byte c.
Repeat(c, n) == [i \in 1..n |-> c]

(***************************************************************************)
(* The carver's magic literals and sizes.                                  *)
(***************************************************************************)
\* s1 = []byte("{\n   \"checksum\": \"")
s1 == <<123, 10, 32, 32, 32, 34, 99, 104, 101, 99, 107, 115, 117, 109, 34,
        58, 32, 34>>

\* s2 = []byte("   \"roots\": {\n      \"bookmark_bar\": {")
s2 == <<32, 32, 32, 34, 114, 111, 111, 116, 115, 34, 58, 32, 123, 10, 32, 32,
        32, 32, 32, 32, 34, 98, 111, 111, 107, 109, 97, 114, 107, 95, 98, 97,
        114, 34, 58, 32, 123>>

\* MaxSize = 20 * 1024 * 1024, the cap of the candidate window.
MaxSize == 20971520

\* make([]byte, 1024), the lookahead read after a matched prefix.
LookaheadSize == 1024

(***************************************************************************)
(* encoding/json as Carve and Decode use it: a recursive-descent reading  *)
(* of one JSON value from a byte string.  A result is                      *)
(*   [err |-> "" | "syntax" | "eof", val |-> value, next |-> index]        *)
(* where next is the 1-based index just after the value and "eof" means   *)
(* that the input ended inside the value.  A value is a record            *)
(*   [k |-> "obj" | "arr" | "str" | "num" | "true" | "false" | "null",     *)
(*    s |-> bytes of a string (unquoted) or of a number,                   *)
(*    items |-> the members <<key, value>> of an object, in order, or the *)
(*              elements of an array].                                     *)
(* A string is held unquoted: its escapes resolved, as valid UTF-8.       *)
(***************************************************************************)
JVal(k, s, items) == [k |-> k, s |-> s, items |-> items]
JNull == JVal("null", <<>>, <<>>)
JRes(err, val, next) == [err |-> err, val |-> val, next |-> next]
JFail(err) == JRes(err, JNull, 0)

IsSpace(c) == c \in {32, 9, 13, 10}
IsDigit(c) == c \in 48..57

RECURSIVE SkipSpace(_, _)
\* The index of the first byte at or after i that is no JSON white space.
SkipSpace(w, i) ==
    IF i <= Len(w) /\ IsSpace(w[i]) THEN SkipSpace(w, i + 1) ELSE i

\* The first index at or after i of a byte that ends or interrupts the plain
\* run of a string literal: a quote, a backslash or a control byte; Len + 1
\* if there is none.
StringStop(w, i) ==
    LET stops == {j \in i..Len(w) : w[j] = 34 \/ w[j] = 92 \/ w[j] < 32}
    IN  IF stops = {} THEN Len(w) + 1
        ELSE CHOOSE j \in stops : \A k \in stops : j <= k

\* The byte a simple escape \c stands for, or -1.
Unescape(c) ==
    CASE c = 34 -> 34  [] c = 92 -> 92  [] c = 47 -> 47  [] c = 98 -> 8
      [] c = 102 -> 12 [] c = 110 -> 10 [] c = 114 -> 13 [] c = 116 -> 9
      [] OTHER -> -1

\* utf8.DecodeRune: the code point at the start of s (not empty) and its
\* size in bytes; U+FFFD and 1 where s does not start with valid UTF-8.
DecodeRune(s) ==
    LET cont(i) == i <= Len(s) /\ s[i] \in 128..191
        two == (s[1] % 32) * 64 + (s[2] % 64)
        three == (s[1] % 16) * 4096 + (s[2] % 64) * 64 + (s[3] % 64)
        four == (s[1] % 8) * 262144 + (s[2] % 64) * 4096 + (s[3] % 64) * 64
                  + (s[4] % 64)
    IN  CASE s[1] < 128 -> [cp |-> s[1], size |-> 1]
          [] s[1] \in 194..223 /\ cont(2) -> [cp |-> two, size |-> 2]
          [] /\ s[1] \in 224..239 /\ cont(2) /\ cont(3)
             /\ three >= 2048 /\ three \notin 55296..57343 ->
                [cp |-> three, size |-> 3]
          [] /\ s[1] \in 240..244 /\ cont(2) /\ cont(3) /\ cont(4)
             /\ four \in 65536..1114111 ->
                [cp |-> four, size |-> 4]
          [] OTHER -> [cp |-> 65533, size |-> 1]

\* utf8.EncodeRune
EncodeRune(cp) ==
    CASE cp < 128 -> <<cp>>
      [] cp < 2048 -> <<192 + (cp \div 64), 128 + (cp % 64)>>
      [] cp < 65536 ->
            <<224 + (cp \div 4096), 128 + ((cp \div 64) % 64), 128 + (cp % 64)>>
      [] OTHER ->
            <<240 + (cp \div 262144), 128 + ((cp \div 4096) % 64),
              128 + ((cp \div 64) % 64), 128 + (cp % 64)>>

RECURSIVE ToValidUTF8(_)
\* s with every byte that is not part of valid UTF-8 replaced by U+FFFD,
\* as unquoting a string literal does.
ToValidUTF8(s) ==
    LET rest(r) == EncodeRune(r.cp) \o ToValidUTF8(SubSeq(s, r.size + 1, Len(s)))
    IN  IF \A i \in 1..Len(s) : s[i] < 128 THEN s ELSE rest(DecodeRune(s))

\* The value of the hexadecimal digit c, or -1.
HexVal(c) ==
    CASE c \in 48..57 -> c - 48
      [] c \in 65..70 -> c - 55
      [] c \in 97..102 -> c - 87
      [] OTHER -> -1

\* getu4: the code unit of the escape \uXXXX at index j of w, or -1.
GetU4(w, j) ==
    IF j + 5 > Len(w) \/ w[j] # 92 \/ w[j + 1] # 117
         \/ \E k \in 2..5 : HexVal(w[j + k]) < 0
    THEN -1
    ELSE HexVal(w[j + 2]) * 4096 + HexVal(w[j + 3]) * 256
           + HexVal(w[j + 4]) * 16 + HexVal(w[j + 5])

\* The escape \uXXXX at index j of w: the code point it stands for and the
\* length of the text read.  A surrogate pair is one code point; a
\* surrogate without its other half is U+FFFD.
UnicodeEscape(w, j) ==
    LET pair(hi, lo) ==
          IF hi \in 55296..56319 /\ lo \in 56320..57343
          THEN [cp |-> 65536 + (hi - 55296) * 1024 + (lo - 56320), size |-> 12]
          ELSE IF hi \in 55296..57343 THEN [cp |-> 65533, size |-> 6]
          ELSE [cp |-> hi, size |-> 6]
    IN  pair(GetU4(w, j), GetU4(w, j + 6))

RECURSIVE ScanString(_, _, _)
\* A string literal whose opening quote is before index i; acc is the
\* content read so far.
ScanString(w, i, acc) ==
    LET unicode(j, u) ==
          ScanString(w, j + u.size,
                     acc \o ToValidUTF8(SubSeq(w, i, j - 1)) \o EncodeRune(u.cp))
        at(j) ==
          IF j > Len(w) THEN JFail("eof")
          ELSE IF w[j] = 34
               THEN JRes("", JVal("str", acc \o ToValidUTF8(SubSeq(w, i, j - 1)),
                                  <<>>), j + 1)
          ELSE IF w[j] < 32 THEN JFail("syntax")
          ELSE IF j + 1 > Len(w) THEN JFail("eof")
          ELSE IF w[j + 1] = 117
               THEN IF j + 5 > Len(w)
                    THEN (IF \E k \in (j + 2)..Len(w) : HexVal(w[k]) < 0
                          THEN JFail("syntax") ELSE JFail("eof"))
                    ELSE IF GetU4(w, j) < 0 THEN JFail("syntax")
                    ELSE unicode(j, UnicodeEscape(w, j))
          ELSE IF Unescape(w[j + 1]) < 0 THEN JFail("syntax")
          ELSE ScanString(w, j + 2,
                          Append(acc \o ToValidUTF8(SubSeq(w, i, j - 1)),
                                 Unescape(w[j + 1])))
    IN  at(StringStop(w, i))

RECURSIVE SkipDigits(_, _)
SkipDigits(w, i) ==
    IF i <= Len(w) /\ IsDigit(w[i]) THEN SkipDigits(w, i + 1) ELSE i

\* A number literal starting at index i: -? (0 | [1-9][0-9]*) (. [0-9]+)?
\* ([eE] [+-]? [0-9]+)?
ScanNumber(w, i) ==
    LET stop(j) == JFail(IF j > Len(w) THEN "eof" ELSE "syntax")
        \* d: after e or E and its sign; e: after the digits of the exponent
        exponent(d, e) ==
          IF e = d THEN stop(d)
          ELSE JRes("", JVal("num", SubSeq(w, i, e - 1), <<>>), e)
        \* c: after the fraction, if any
        fraction(c) ==
          IF c <= Len(w) /\ w[c] \in {69, 101}
          THEN LET signed(d) == exponent(d, SkipDigits(w, d))
               IN  signed(IF c + 1 <= Len(w) /\ w[c + 1] \in {43, 45}
                          THEN c + 2 ELSE c + 1)
          ELSE JRes("", JVal("num", SubSeq(w, i, c - 1), <<>>), c)
        \* b: after the digits of the integer part
        dot(b, c) == IF c = b + 1 THEN stop(c) ELSE fraction(c)
        integer(a, b) ==
          IF b = a THEN stop(a)
          ELSE IF b <= Len(w) /\ w[b] = 46 THEN dot(b, SkipDigits(w, b + 1))
          ELSE fraction(b)
        sign(a) ==
          integer(a, IF a <= Len(w) /\ w[a] = 48 THEN a + 1 ELSE SkipDigits(w, a))
    IN  sign(IF w[i] = 45 THEN i + 1 ELSE i)

\* The literal word lit (true, false, null) expected at index i.
ScanLiteral(w, i, lit, k) ==
    LET n == Min2(Len(lit), Len(w) - i + 1)
    IN  IF SubSeq(w, i, i + n - 1) # SubSeq(lit, 1, n) THEN JFail("syntax")
        ELSE IF n < Len(lit) THEN JFail("eof")
        ELSE JRes("", JVal(k, <<>>, <<>>), i + Len(lit))

RECURSIVE ParseValue(_, _)
RECURSIVE ParseMembers(_, _, _)
RECURSIVE ParseItems(_, _, _)

\* One JSON value starting at or after index i (leading white space skipped).
ParseValue(w, i) ==
    LET \* k: the first byte after the opening brace or bracket at j
        open(j, k) ==
          IF k > Len(w) THEN JFail("eof")
          ELSE IF w[j] = 123
               THEN IF w[k] = 125 THEN JRes("", JVal("obj", <<>>, <<>>), k + 1)
                    ELSE ParseMembers(w, k, <<>>)
          ELSE IF w[k] = 93 THEN JRes("", JVal("arr", <<>>, <<>>), k + 1)
               ELSE ParseItems(w, k, <<>>)
        at(j) ==
          IF j > Len(w) THEN JFail("eof")
          ELSE CASE w[j] \in {123, 91} -> open(j, SkipSpace(w, j + 1))
                 [] w[j] = 34 -> ScanString(w, j + 1, <<>>)
                 [] w[j] = 45 \/ IsDigit(w[j]) -> ScanNumber(w, j)
                 [] w[j] = 116 -> ScanLiteral(w, j, <<116, 114, 117, 101>>, "true")
                 [] w[j] = 102 ->
                      ScanLiteral(w, j, <<102, 97, 108, 115, 101>>, "false")
                 [] w[j] = 110 -> ScanLiteral(w, j, <<110, 117, 108, 108>>, "null")
                 [] OTHER -> JFail("syntax")
    IN  at(SkipSpace(w, i))

\* The members of an object from index i, where a key must start; acc holds
\* the members read so far.
ParseMembers(w, i, acc) ==
    LET \* e: the first byte after the member, more: the members with it
        after(more, e) ==
          IF e > Len(w) THEN JFail("eof")
          ELSE IF w[e] = 125 THEN JRes("", JVal("obj", <<>>, more), e + 1)
          ELSE IF w[e] = 44 THEN ParseMembers(w, SkipSpace(w, e + 1), more)
          ELSE JFail("syntax")
        value(key, v) ==
          IF v.err # "" THEN JFail(v.err)
          ELSE after(Append(acc, <<key.val.s, v.val>>), SkipSpace(w, v.next))
        \* c: the first byte after the key
        colon(key, c) ==
          IF c > Len(w) THEN JFail("eof")
          ELSE IF w[c] # 58 THEN JFail("syntax")
          ELSE value(key, ParseValue(w, c + 1))
        member(key) ==
          IF key.err # "" THEN JFail(key.err)
          ELSE colon(key, SkipSpace(w, key.next))
    IN  IF i > Len(w) THEN JFail("eof")
        ELSE IF w[i] # 34 THEN JFail("syntax")
        ELSE member(ScanString(w, i + 1, <<>>))

\* The elements of an array from index i, where a value must start.
ParseItems(w, i, acc) ==
    LET after(more, e) ==
          IF e > Len(w) THEN JFail("eof")
          ELSE IF w[e] = 93 THEN JRes("", JVal("arr", <<>>, more), e + 1)
          ELSE IF w[e] = 44 THEN ParseItems(w, e + 1, more)
          ELSE JFail("syntax")
        item(v) ==
          IF v.err # "" THEN JFail(v.err)
          ELSE after(Append(acc, v.val), SkipSpace(w, v.next))
    IN  item(ParseValue(w, i))

(***************************************************************************)
(* Field names and enumeration literals of the wire format (the json      *)
(* struct tags of Bookmarks and BookmarkNode, and the typed constants).   *)
(***************************************************************************)
\* "checksum"
B_checksum == <<99, 104, 101, 99, 107, 115, 117, 109>>
\* "roots"
B_roots == <<114, 111, 111, 116, 115>>
\* "sync_metadata"
B_sync_metadata == <<115, 121, 110, 99, 95, 109, 101, 116, 97, 100, 97, 116, 97>>
\* "version"
B_version == <<118, 101, 114, 115, 105, 111, 110>>
\* "meta_info"
B_meta_info == <<109, 101, 116, 97, 95, 105, 110, 102, 111>>
\* "unsynced_meta_info"
B_unsynced_meta_info == <<117, 110, 115, 121, 110, 99, 101, 100, 95, 109, 101, 116, 97, 95, 105, 110, 102, 111>>
\* "bookmark_bar"
B_bookmark_bar == <<98, 111, 111, 107, 109, 97, 114, 107, 95, 98, 97, 114>>
\* "other"
B_other == <<111, 116, 104, 101, 114>>
\* "synced"
B_synced == <<115, 121, 110, 99, 101, 100>>
\* "children"
B_children == <<99, 104, 105, 108, 100, 114, 101, 110>>
\* "date_added"
B_date_added == <<100, 97, 116, 101, 95, 97, 100, 100, 101, 100>>
\* "date_last_used"
B_date_last_used == <<100, 97, 116, 101, 95, 108, 97, 115, 116, 95, 117, 115, 101, 100>>
\* "date_modified"
B_date_modified == <<100, 97, 116, 101, 95, 109, 111, 100, 105, 102, 105, 101, 100>>
\* "guid"
B_guid == <<103, 117, 105, 100>>
\* "id"
B_id == <<105, 100>>
\* "name"
B_name == <<110, 97, 109, 101>>
\* "show_icon"
B_show_icon == <<115, 104, 111, 119, 95, 105, 99, 111, 110>>
\* "source"
B_source == <<115, 111, 117, 114, 99, 101>>
\* "type"
B_type == <<116, 121, 112, 101>>
\* NodeTypeURL = "url" (also the field name "url")
B_url == <<117, 114, 108>>
\* NodeTypeFolder = "folder"
B_folder == <<102, 111, 108, 100, 101, 114>>
\* SourceUserAdd = "user_add"
B_user_add == <<117, 115, 101, 114, 95, 97, 100, 100>>
\* SourceImportFre = "import_fre"
B_import_fre == <<105, 109, 112, 111, 114, 116, 95, 102, 114, 101>>
\* SourceUnknown = "unknown"
B_unknown == <<117, 110, 107, 110, 111, 119, 110>>
\* "null"
B_null == <<110, 117, 108, 108>>

NodeTypeURL == B_url
NodeTypeFolder == B_folder

(***************************************************************************)
(* The decoded document.  A nil pointer, map or slice is told from an     *)
(* empty one by a flag: the pointer Children by HasChildren, the maps     *)
(* and Bytes by IsNil.                                                     *)
(***************************************************************************)
NilMap == [IsNil |-> TRUE, Pairs |-> {}]
NilBytes == [IsNil |-> TRUE, B |-> <<>>]

\* The zero value of BookmarkNode.
ZeroNode ==
    [HasChildren |-> FALSE, Children |-> <<>>,
     DateAdded |-> 0, DateLastUsed |-> 0, DateModified |-> 0,
     GUID |-> <<>>, ID |-> 0, Name |-> <<>>, ShowIcon |-> FALSE,
     Source |-> <<>>, Type |-> <<>>, URL |-> <<>>,
     MetaInfo |-> NilMap, UnsyncedMetaInfo |-> NilMap]

\* The zero value of Bookmarks (var b Bookmarks).
ZeroBookmarks ==
    [Checksum |-> <<>>,
     Roots |-> [BookmarkBar |-> ZeroNode, Other |-> ZeroNode,
                MobileBookmark |-> ZeroNode],
     SyncMetadata |-> NilBytes, Version |-> 0,
     MetaInfo |-> NilMap, UnsyncedMetaInfo |-> NilMap]

(***************************************************************************)
(* Errors are strings, "" being nil.  A decoding step yields              *)
(* [err |-> error, v |-> the value decoded into].                          *)
(***************************************************************************)
DRes(err, v) == [err |-> err, v |-> v]

\* The step r stored into field f of the struct rec.
Store(r, rec, f) == DRes(r.err, [rec EXCEPT ![f] = r.v])

ErrType == "json: cannot unmarshal"
ErrUnknownField == "json: unknown field"
ErrSyntax == "json: syntax error"
ErrUnexpectedEOF == "unexpected EOF"
ErrParseInt == "strconv.ParseInt: invalid syntax"
ErrBase64 == "illegal base64 data"
ErrVersion == "unsupported bookmarks version"
ErrNodeType == "unrecognized node type"
ErrSource == "unrecognized source"
ErrGUIDFormat == "invalid guid format"
ErrGUIDHex == "invalid guid hex char"

\* encoding/json matches a key to a field name case-insensitively.
Lower(s) == [i \in 1..Len(s) |-> IF s[i] \in 65..90 THEN s[i] + 32 ELSE s[i]]

RECURSIVE DecValue(_)
\* The value of a string of decimal digits.
DecValue(s) ==
    IF s = <<>> THEN 0 ELSE 10 * DecValue(SubSeq(s, 1, Len(s) - 1)) + (s[Len(s)] - 48)

\* strconv.ParseInt(s, 10, 64): an optional sign and at least one digit.
ParseInt(s) ==
    LET signed == s # <<>> /\ s[1] \in {43, 45}
        digits == IF signed THEN Tail(s) ELSE s
    IN  IF digits = <<>> \/ \E i \in 1..Len(digits) : ~IsDigit(digits[i])
        THEN DRes(ErrParseInt, 0)
        ELSE DRes("", IF signed /\ s[1] = 45 THEN 0 - DecValue(digits)
                      ELSE DecValue(digits))

\* A Go string field: a JSON string sets it, null leaves it.
DecodeString(v, old) ==
    CASE v.k = "str" -> DRes("", v.s)
      [] v.k = "null" -> DRes("", old)
      [] OTHER -> DRes(ErrType, old)

\* A Go bool field.
DecodeBool(v, old) ==
    CASE v.k = "true" -> DRes("", TRUE)
      [] v.k = "false" -> DRes("", FALSE)
      [] v.k = "null" -> DRes("", old)
      [] OTHER -> DRes(ErrType, old)

\* An int field read from a JSON number: an integer literal only.
DecodeInt(v, old) ==
    CASE v.k = "num" ->
            LET number(r) == IF r.err # "" THEN DRes(ErrType, old) ELSE r
            IN  number(ParseInt(v.s))
      [] v.k = "null" -> DRes("", old)
      [] OTHER -> DRes(ErrType, old)

\* ID int `json:"id,string"`: the number is written inside a JSON string.
DecodeIntString(v, old) ==
    CASE v.k = "null" -> DRes("", old)
      [] v.k = "str" ->
            IF v.s = B_null THEN DRes("", old)
            ELSE IF v.s = <<>> \/ ~(v.s[1] = 45 \/ IsDigit(v.s[1]))
                 THEN DRes(ErrType, old)
            ELSE LET number(r) == IF r.err # "" THEN DRes(ErrType, old) ELSE r
                 IN  number(ParseInt(v.s))
      [] OTHER -> DRes(ErrType, old)

\* map[string]string: null makes it nil, an object adds its entries.
DecodeMap(v, old) ==
    CASE v.k = "null" -> DRes("", NilMap)
      [] v.k = "obj" ->
            IF \E i \in 1..Len(v.items) : v.items[i][2].k \notin {"str", "null"}
            THEN DRes(ErrType, old)
            ELSE LET keys == {v.items[i][1] : i \in 1..Len(v.items)}
                     last(k) == CHOOSE i \in 1..Len(v.items) :
                                   /\ v.items[i][1] = k
                                   /\ \A j \in (i + 1)..Len(v.items) : v.items[j][1] # k
                     kept == {p \in old.Pairs : p[1] \notin keys}
                 IN  DRes("", [IsNil |-> FALSE,
                               Pairs |-> kept \cup
                                   {<<k, v.items[last(k)][2].s>> : k \in keys}])
      [] OTHER -> DRes(ErrType, old)

(***************************************************************************)
(* The value types of bookmark_codec.go and their UnmarshalJSON methods.  *)
(***************************************************************************)
\* Version.Valid
VersionValid(v) == IF v # 1 THEN ErrVersion ELSE ""

\* Version.UnmarshalJSON
VersionUnmarshalJSON(v, old) ==
    LET valid(r) == IF r.err # "" THEN r ELSE DRes(VersionValid(r.v), r.v)
    IN  valid(DecodeInt(v, old))

\* NodeType.Valid
NodeTypeValid(t) == IF t \in {NodeTypeURL, NodeTypeFolder} THEN "" ELSE ErrNodeType

\* NodeType.UnmarshalJSON
NodeTypeUnmarshalJSON(v, old) ==
    LET valid(r) == IF r.err # "" THEN r ELSE DRes(NodeTypeValid(r.v), r.v)
    IN  valid(DecodeString(v, old))

\* Source.Valid
SourceValid(s) ==
    IF s \in {B_user_add, B_import_fre, B_unknown} THEN "" ELSE ErrSource

\* Source.UnmarshalJSON
SourceUnmarshalJSON(v, old) ==
    LET valid(r) == IF r.err # "" THEN r ELSE DRes(SourceValid(r.v), r.v)
    IN  valid(DecodeString(v, old))

\* xv[c] != 255: c is a hexadecimal digit.
IsHex(c) == c \in 48..57 \/ c \in 65..70 \/ c \in 97..102

\* The offsets of the 16 byte pairs of a GUID.
GUIDPairs == {0, 2, 4, 6, 9, 11, 14, 16, 19, 21, 24, 26, 28, 30, 32, 34}

\* GUID.Valid, through GUID.Bytes: the error of parsing s.
GUIDValid(s) ==
    IF Len(s) # 36 \/ s[9] # 45 \/ s[14] # 45 \/ s[19] # 45 \/ s[24] # 45
    THEN ErrGUIDFormat
    ELSE IF \E x \in GUIDPairs : ~(IsHex(s[x + 1]) /\ IsHex(s[x + 2]))
         THEN ErrGUIDHex
    ELSE ""

\* GUID.UnmarshalJSON
GUIDUnmarshalJSON(v, old) ==
    LET valid(r) == IF r.err # "" THEN r ELSE DRes(GUIDValid(r.v), r.v)
    IN  valid(DecodeString(v, old))

\* Time.UnmarshalJSON: a JSON string holding a decimal integer.
TimeUnmarshalJSON(v, old) ==
    LET number(r) == IF r.err # "" THEN DRes(r.err, old) ELSE r
        text(s) == IF s.err # "" THEN DRes(s.err, old) ELSE number(ParseInt(s.v))
    IN  text(DecodeString(v, <<>>))

\* The value of a base64 digit of the standard alphabet, or -1.
B64Val(c) ==
    CASE c \in 65..90 -> c - 65
      [] c \in 97..122 -> c - 71
      [] c \in 48..57 -> c + 4
      [] c = 43 -> 62
      [] c = 47 -> 63
      [] OTHER -> -1

RECURSIVE B64Quads(_, _)
\* base64.StdEncoding over the quads of t, acc being the bytes decoded so
\* far: padding is allowed in the last quad only.
B64Quads(t, acc) ==
    IF t = <<>> THEN DRes("", acc)
    ELSE
      LET last == Len(t) = 4
          pad == IF last /\ t[4] = 61 THEN (IF t[3] = 61 THEN 2 ELSE 1) ELSE 0
          d(i) == IF i > 4 - pad THEN 0 ELSE B64Val(t[i])
          n == d(1) * 262144 + d(2) * 4096 + d(3) * 64 + d(4)
          out == <<n \div 65536, (n \div 256) % 256, n % 256>>
      IN  IF \E i \in 1..(4 - pad) : B64Val(t[i]) < 0 THEN DRes(ErrBase64, <<>>)
          ELSE B64Quads(SubSeq(t, 5, Len(t)), acc \o SubSeq(out, 1, 3 - pad))

\* base64.StdEncoding.DecodeString: line breaks are skipped.
B64Decode(s) ==
    LET quads(t) == IF Len(t) % 4 # 0 THEN DRes(ErrBase64, <<>>)
                    ELSE B64Quads(t, <<>>)
    IN  quads(SelectSeq(s, LAMBDA c : c \notin {10, 13}))

\* Bytes.UnmarshalJSON: null is nil, "" is empty, other strings are base64.
BytesUnmarshalJSON(v, old) ==
    CASE v.k = "null" -> DRes("", NilBytes)
      [] v.k = "str" ->
            IF v.s = <<>> THEN DRes("", [IsNil |-> FALSE, B |-> <<>>])
            ELSE LET bytes(r) == IF r.err # "" THEN DRes(r.err, old)
                                 ELSE DRes("", [IsNil |-> FALSE, B |-> r.v])
                 IN  bytes(B64Decode(v.s))
      [] OTHER -> DRes(ErrType, old)

(***************************************************************************)
(* Decoding into the structs, with DisallowUnknownFields: the members of  *)
(* an object are applied in order to the value decoded into, and a key    *)
(* that names no field is an error.                                        *)
(***************************************************************************)
RECURSIVE DecodeNode(_, _)
RECURSIVE DecodeNodes(_, _, _)
RECURSIVE NodeFields(_, _, _)

\* One member key: v of a node object, applied to node n.
NodeField(n, key, v) ==
    LET children(r) ==
          DRes(r.err, [n EXCEPT !.HasChildren = TRUE, !.Children = r.v])
    IN  CASE key = B_children ->
               IF v.k = "null"
               THEN DRes("", [n EXCEPT !.HasChildren = FALSE, !.Children = <<>>])
               ELSE IF v.k = "arr" THEN children(DecodeNodes(v.items, 1, <<>>))
               ELSE DRes(ErrType, n)
          [] key = B_date_added ->
               Store(TimeUnmarshalJSON(v, n.DateAdded), n, "DateAdded")
          [] key = B_date_last_used ->
               Store(TimeUnmarshalJSON(v, n.DateLastUsed), n, "DateLastUsed")
          [] key = B_date_modified ->
               Store(TimeUnmarshalJSON(v, n.DateModified), n, "DateModified")
          [] key = B_guid -> Store(GUIDUnmarshalJSON(v, n.GUID), n, "GUID")
          [] key = B_id -> Store(DecodeIntString(v, n.ID), n, "ID")
          [] key = B_name -> Store(DecodeString(v, n.Name), n, "Name")
          [] key = B_show_icon -> Store(DecodeBool(v, n.ShowIcon), n, "ShowIcon")
          [] key = B_source -> Store(SourceUnmarshalJSON(v, n.Source), n, "Source")
          [] key = B_type -> Store(NodeTypeUnmarshalJSON(v, n.Type), n, "Type")
          [] key = B_url -> Store(DecodeString(v, n.URL), n, "URL")
          [] key = B_meta_info -> Store(DecodeMap(v, n.MetaInfo), n, "MetaInfo")
          [] key = B_unsynced_meta_info ->
               Store(DecodeMap(v, n.UnsyncedMetaInfo), n, "UnsyncedMetaInfo")
          [] OTHER -> DRes(ErrUnknownField, n)

\* The members items[i..] applied to node n.
NodeFields(items, i, n) ==
    IF i > Len(items) THEN DRes("", n)
    ELSE LET rest(r) == IF r.err # "" THEN r ELSE NodeFields(items, i + 1, r.v)
         IN  rest(NodeField(n, Lower(items[i][1]), items[i][2]))

\* A BookmarkNode read from JSON value v over the value old.
DecodeNode(v, old) ==
    CASE v.k = "obj" -> NodeFields(v.items, 1, old)
      [] v.k = "null" -> DRes("", old)
      [] OTHER -> DRes(ErrType, old)

\* The elements items[i..] of a children array, after the nodes acc.
DecodeNodes(items, i, acc) ==
    IF i > Len(items) THEN DRes("", acc)
    ELSE LET rest(r) == IF r.err # "" THEN DRes(r.err, acc)
                        ELSE DecodeNodes(items, i + 1, Append(acc, r.v))
         IN  rest(DecodeNode(items[i], ZeroNode))

\* One member key: v of the roots object.
RootsField(roots, key, v) ==
    LET \* the struct field of the json tag
        root(f) == Store(DecodeNode(v, roots[f]), roots, f)
    IN  CASE key = B_bookmark_bar -> root("BookmarkBar")
          [] key = B_other -> root("Other")
          [] key = B_synced -> root("MobileBookmark")
          [] OTHER -> DRes(ErrUnknownField, roots)

RECURSIVE RootsFields(_, _, _)
RootsFields(items, i, roots) ==
    IF i > Len(items) THEN DRes("", roots)
    ELSE LET rest(r) == IF r.err # "" THEN r ELSE RootsFields(items, i + 1, r.v)
         IN  rest(RootsField(roots, Lower(items[i][1]), items[i][2]))

DecodeRoots(v, old) ==
    CASE v.k = "obj" -> RootsFields(v.items, 1, old)
      [] v.k = "null" -> DRes("", old)
      [] OTHER -> DRes(ErrType, old)

\* One member key: v of the document object, applied to b.
BookmarksField(b, key, v) ==
    CASE key = B_checksum -> Store(DecodeString(v, b.Checksum), b, "Checksum")
      [] key = B_roots -> Store(DecodeRoots(v, b.Roots), b, "Roots")
      [] key = B_sync_metadata ->
           Store(BytesUnmarshalJSON(v, b.SyncMetadata), b, "SyncMetadata")
      [] key = B_version -> Store(VersionUnmarshalJSON(v, b.Version), b, "Version")
      [] key = B_meta_info -> Store(DecodeMap(v, b.MetaInfo), b, "MetaInfo")
      [] key = B_unsynced_meta_info ->
           Store(DecodeMap(v, b.UnsyncedMetaInfo), b, "UnsyncedMetaInfo")
      [] OTHER -> DRes(ErrUnknownField, b)

RECURSIVE BookmarksFields(_, _, _)
BookmarksFields(items, i, b) ==
    IF i > Len(items) THEN DRes("", b)
    ELSE LET rest(r) == IF r.err # "" THEN r
                        ELSE BookmarksFields(items, i + 1, r.v)
         IN  rest(BookmarksField(b, Lower(items[i][1]), items[i][2]))

\* json.Decoder.Decode(&b) of the JSON value v into the zero Bookmarks.
UnmarshalBookmarks(v) ==
    CASE v.k = "obj" -> BookmarksFields(v.items, 1, ZeroBookmarks)
      [] v.k = "null" -> DRes("", ZeroBookmarks)
      [] OTHER -> DRes(ErrType, ZeroBookmarks)

(***************************************************************************)
(* Walk and the checksum.                                                  *)
(***************************************************************************)
RECURSIVE walk(_, _)
RECURSIVE walkChildren(_, _, _)

\* BookmarkNode.walk with a visitor that always returns nil: the visits
\* [n, parents] in order.  A child c is walked with append(parents, c.Name).
walk(n, parents) ==
    <<[n |-> n, parents |-> parents]>> \o
    (IF n.Type = NodeTypeFolder /\ n.HasChildren
     THEN walkChildren(n.Children, 1, parents)
     ELSE <<>>)

\* for _, c := range *n.Children, from the i-th child on.
walkChildren(cs, i, parents) ==
    IF i > Len(cs) THEN <<>>
    ELSE walk(cs[i], Append(parents, cs[i].Name)) \o walkChildren(cs, i + 1, parents)

\* Bookmarks.Walk with a visitor that always returns nil.
Walk(b) ==
    walk(b.Roots.BookmarkBar, <<>>) \o walk(b.Roots.Other, <<>>)
      \o walk(b.Roots.MobileBookmark, <<>>)

RECURSIVE Digits(_)
Digits(n) == IF n < 10 THEN <<48 + n>> ELSE Append(Digits(n \div 10), 48 + (n % 10))

\* strconv.Itoa
Itoa(n) == IF n < 0 THEN <<45>> \o Digits(0 - n) ELSE Digits(n)

\* utf16.Encode of one code point, each code unit as byte(r), byte(r >> 8).
U16Units(cp) ==
    LET unit(r) == <<r % 256, r \div 256>>
    IN  IF cp < 65536 THEN unit(cp)
        ELSE unit(55296 + ((cp - 65536) \div 1024))
               \o unit(56320 + ((cp - 65536) % 1024))

RECURSIVE u16string(_)
\* u16string: the UTF-16LE bytes of a UTF-8 string; []rune(s) makes U+FFFD
\* of every byte that is not part of valid UTF-8.
u16string(s) ==
    LET rest(r) == U16Units(r.cp) \o u16string(SubSeq(s, r.size + 1, Len(s)))
    IN  IF s = <<>> THEN <<>> ELSE rest(DecodeRune(s))

\* A faulty visitor: the name is written as it is, in UTF-8.
HashedBytesNameUTF8(n) ==
    CASE n.Type = NodeTypeURL -> Itoa(n.ID) \o n.Name \o n.Type \o n.URL
      [] n.Type = NodeTypeFolder -> Itoa(n.ID) \o n.Name \o n.Type
      [] OTHER -> <<>>

\* A faulty visitor: the URL of a folder is written too.
HashedBytesFolderURL(n) ==
    IF n.Type \in {NodeTypeURL, NodeTypeFolder}
    THEN Itoa(n.ID) \o u16string(n.Name) \o n.Type \o n.URL
    ELSE <<>>

\* A faulty visitor: the URL of a bookmark is not written.
HashedBytesNoURL(n) ==
    IF n.Type \in {NodeTypeURL, NodeTypeFolder}
    THEN Itoa(n.ID) \o u16string(n.Name) \o n.Type
    ELSE <<>>

\* What the visitor of CalculateChecksum writes to the hash for node n.
HashedBytes(n) ==
    CASE n.Type = NodeTypeURL ->
            Itoa(n.ID) \o u16string(n.Name) \o n.Type \o n.URL
      [] n.Type = NodeTypeFolder -> Itoa(n.ID) \o u16string(n.Name) \o n.Type
      [] OTHER -> <<>>

\* The bytes CalculateChecksum feeds to MD5, in Walk order.
HashStream(b) ==
    LET vs == Walk(b) IN Concat([i \in 1..Len(vs) |-> HashedBytes(vs[i].n)])

(***************************************************************************)
(* The JSON text Chrome writes (base::JSONWriter, pretty printed with a   *)
(* three-space indent), which is the format the magic literals s1 and s2  *)
(* of Carve come from.  It is used to build the inputs.  A value of kind  *)
(* "raw" stands for text that is written as it is.                        *)
(***************************************************************************)
JStr(s) == JVal("str", s, <<>>)
JNum(s) == JVal("num", s, <<>>)
JArr(items) == JVal("arr", <<>>, items)
JObj(members) == JVal("obj", <<>>, members)
JRaw(text) == JVal("raw", text, <<>>)

Quote(s) == <<34>> \o s \o <<34>>
Indent(d) == Repeat(32, 3 * d)

RECURSIVE ChromeText(_, _)
RECURSIVE ChromeJoin(_, _, _, _)

\* The text of value v written at nesting depth d.
ChromeText(v, d) ==
    CASE v.k = "str" -> Quote(v.s)
      [] v.k \in {"num", "raw"} -> v.s
      [] v.k = "true" -> <<116, 114, 117, 101>>
      [] v.k = "false" -> <<102, 97, 108, 115, 101>>
      [] v.k = "null" -> B_null
      [] v.k = "arr" -> <<91, 32>> \o ChromeJoin(v, 1, d, <<44, 32>>) \o <<32, 93>>
      [] v.k = "obj" ->
            <<123, 10>> \o ChromeJoin(v, 1, d + 1, <<44, 10>>) \o <<10>>
              \o Indent(d) \o <<125>>

\* The elements or members of v from the i-th on, separated by sep.
ChromeJoin(v, i, d, sep) ==
    IF i > Len(v.items) THEN <<>>
    ELSE (IF v.k = "obj"
          THEN Indent(d) \o Quote(v.items[i][1]) \o <<58, 32>>
                 \o ChromeText(v.items[i][2], d)
          ELSE ChromeText(v.items[i], d))
         \o (IF i < Len(v.items) THEN sep ELSE <<>>)
         \o ChromeJoin(v, i + 1, d, sep)

(***************************************************************************)
(* Bookmark trees of the inputs.                                           *)
(***************************************************************************)
URLNode(id, name, url) ==
    [ZeroNode EXCEPT !.ID = id, !.Name = name, !.Type = NodeTypeURL, !.URL = url]

FolderNode(id, name, children) ==
    [ZeroNode EXCEPT !.ID = id, !.Name = name, !.Type = NodeTypeFolder,
                     !.HasChildren = TRUE, !.Children = children]

Tree(bar, other, synced) ==
    [ZeroBookmarks EXCEPT !.Roots = [BookmarkBar |-> bar, Other |-> other,
                                     MobileBookmark |-> synced],
                          !.Version = 1]

\* bookmark_bar "b" holding the bookmark "a" -> "u:a"; other "o"; synced "s".
TreeA ==
    Tree(FolderNode(1, <<98>>, <<URLNode(2, <<97>>, <<117, 58, 97>>)>>),
         FolderNode(3, <<111>>, <<>>), FolderNode(4, <<115>>, <<>>))

\* Three empty root folders.
TreeB ==
    Tree(FolderNode(1, <<98>>, <<>>), FolderNode(2, <<111>>, <<>>),
         FolderNode(3, <<115>>, <<>>))

RECURSIVE NodeJSON(_)
\* The JSON object Chrome writes for node n (keys in alphabetical order),
\* with the fields the checksum covers.
NodeJSON(n) ==
    JObj((IF n.HasChildren
          THEN << <<B_children,
                    JArr([i \in 1..Len(n.Children) |-> NodeJSON(n.Children[i])])>> >>
          ELSE <<>>)
         \o << <<B_id, JStr(Itoa(n.ID))>>, <<B_name, JStr(n.Name)>>,
               <<B_type, JStr(n.Type)>> >>
         \o (IF n.Type = NodeTypeURL THEN << <<B_url, JStr(n.URL)>> >> ELSE <<>>))

\* The roots object of document b.
RootsJSON(b) ==
    JObj(<< <<B_bookmark_bar, NodeJSON(b.Roots.BookmarkBar)>>,
            <<B_other, NodeJSON(b.Roots.Other)>>,
            <<B_synced, NodeJSON(b.Roots.MobileBookmark)>> >>)

(***************************************************************************)
(* MD5 is tabulated: MD5Table pairs each byte stream that a document of   *)
(* the model can hash with its real lowercase hexadecimal MD5 digest.     *)
(* A stream that is not in the table gets a digest of its own that is no  *)
(* string a checksum field can hold.                                       *)
(***************************************************************************)
MD5Table == <<
  \* md5(b'') = d41d8cd98f00b204e9800998ecf8427e
  << <<>>,
     <<100, 52, 49, 100, 56, 99, 100, 57, 56, 102, 48, 48, 98, 50, 48, 52,
     101, 57, 56, 48, 48, 57, 57, 56, 101, 99, 102, 56, 52, 50, 55, 101>> >>,
  \* md5(b'4s\x00folder') = 33049a75ef7e78160d78512217744e9c
  << <<52, 115, 0, 102, 111, 108, 100, 101, 114>>,
     <<51, 51, 48, 52, 57, 97, 55, 53, 101, 102, 55, 101, 55, 56, 49, 54,
     48, 100, 55, 56, 53, 49, 50, 50, 49, 55, 55, 52, 52, 101, 57, 99>> >>,
  \* md5(b'3o\x00folder') = e7c99cc863b3430471961ecd47e7c7cb
  << <<51, 111, 0, 102, 111, 108, 100, 101, 114>>,
     <<101, 55, 99, 57, 57, 99, 99, 56, 54, 51, 98, 51, 52, 51, 48, 52, 55,
     49, 57, 54, 49, 101, 99, 100, 52, 55, 101, 55, 99, 55, 99, 98>> >>,
  \* md5(b'3o\x00folder4s\x00folder') = ef605cb2911d234bd1dbe0712cbd61d8
  << <<51, 111, 0, 102, 111, 108, 100, 101, 114, 52, 115, 0, 102, 111, 108,
     100, 101, 114>>,
     <<101, 102, 54, 48, 53, 99, 98, 50, 57, 49, 49, 100, 50, 51, 52, 98,
     100, 49, 100, 98, 101, 48, 55, 49, 50, 99, 98, 100, 54, 49, 100, 56>> >>,
  \* md5(b'1b\x00folder') = aafe239de7cd97281e72256ca763c16a
  << <<49, 98, 0, 102, 111, 108, 100, 101, 114>>,
     <<97, 97, 102, 101, 50, 51, 57, 100, 101, 55, 99, 100, 57, 55, 50, 56,
     49, 101, 55, 50, 50, 53, 54, 99, 97, 55, 54, 51, 99, 49, 54, 97>> >>,
  \* md5(b'1b\x00folder4s\x00folder') = 666b30b75ed76a0b58c0afa6ae639175
  << <<49, 98, 0, 102, 111, 108, 100, 101, 114, 52, 115, 0, 102, 111, 108,
     100, 101, 114>>,
     <<54, 54, 54, 98, 51, 48, 98, 55, 53, 101, 100, 55, 54, 97, 48, 98,
     53, 56, 99, 48, 97, 102, 97, 54, 97, 101, 54, 51, 57, 49, 55, 53>> >>,
  \* md5(b'1b\x00folder3o\x00folder') = 02a6093e361a4c9ed02a80a161851803
  << <<49, 98, 0, 102, 111, 108, 100, 101, 114, 51, 111, 0, 102, 111, 108,
     100, 101, 114>>,
     <<48, 50, 97, 54, 48, 57, 51, 101, 51, 54, 49, 97, 52, 99, 57, 101,
     100, 48, 50, 97, 56, 48, 97, 49, 54, 49, 56, 53, 49, 56, 48, 51>> >>,
  \* md5(b'1b\x00folder3o\x00folder4s\x00folder') = 17bcaf13bed443abd8f42c56eaac1e7c
  << <<49, 98, 0, 102, 111, 108, 100, 101, 114, 51, 111, 0, 102, 111, 108,
     100, 101, 114, 52, 115, 0, 102, 111, 108, 100, 101, 114>>,
     <<49, 55, 98, 99, 97, 102, 49, 51, 98, 101, 100, 52, 52, 51, 97, 98,
     100, 56, 102, 52, 50, 99, 53, 54, 101, 97, 97, 99, 49, 101, 55, 99>> >>,
  \* md5(b'1b\x00folder2a\x00urlu:a') = 720fc3cd6ffb40395235f81bd0bd00ec
  << <<49, 98, 0, 102, 111, 108, 100, 101, 114, 50, 97, 0, 117, 114, 108,
     117, 58, 97>>,
     <<55, 50, 48, 102, 99, 51, 99, 100, 54, 102, 102, 98, 52, 48, 51, 57,
     53, 50, 51, 53, 102, 56, 49, 98, 100, 48, 98, 100, 48, 48, 101, 99>> >>,
  \* md5(b'1b\x00folder2a\x00urlu:a4s\x00folder') = 104f8d54fc1e1306ef66e268819f9122
  << <<49, 98, 0, 102, 111, 108, 100, 101, 114, 50, 97, 0, 117, 114, 108,
     117, 58, 97, 52, 115, 0, 102, 111, 108, 100, 101, 114>>,
     <<49, 48, 52, 102, 56, 100, 53, 52, 102, 99, 49, 101, 49, 51, 48, 54,
     101, 102, 54, 54, 101, 50, 54, 56, 56, 49, 57, 102, 57, 49, 50, 50>> >>,
  \* md5(b'1b\x00folder2a\x00urlu:a3o\x00folder') = 641b608b0d65d941f12a7c6b658d42b0
  << <<49, 98, 0, 102, 111, 108, 100, 101, 114, 50, 97, 0, 117, 114, 108,
     117, 58, 97, 51, 111, 0, 102, 111, 108, 100, 101, 114>>,
     <<54, 52, 49, 98, 54, 48, 56, 98, 48, 100, 54, 53, 100, 57, 52, 49,
     102, 49, 50, 97, 55, 99, 54, 98, 54, 53, 56, 100, 52, 50, 98, 48>> >>,
  \* md5(b'1b\x00folder2a\x00urlu:a3o\x00folder4s\x00folder') = 182d9f8d299dc6bfa318442d7ae0863f
  << <<49, 98, 0, 102, 111, 108, 100, 101, 114, 50, 97, 0, 117, 114, 108,
     117, 58, 97, 51, 111, 0, 102, 111, 108, 100, 101, 114, 52, 115, 0,
     102, 111, 108, 100, 101, 114>>,
     <<49, 56, 50, 100, 57, 102, 56, 100, 50, 57, 57, 100, 99, 54, 98, 102,
     97, 51, 49, 56, 52, 52, 50, 100, 55, 97, 101, 48, 56, 54, 51, 102>> >>,
  \* md5(b'1b\x00urlu:a') = 7611954abd35d3577be07d196c05dfbc
  << <<49, 98, 0, 117, 114, 108, 117, 58, 97>>,
     <<55, 54, 49, 49, 57, 53, 52, 97, 98, 100, 51, 53, 100, 51, 53, 55,
     55, 98, 101, 48, 55, 100, 49, 57, 54, 99, 48, 53, 100, 102, 98, 99>> >>,
  \* md5(b'1b\x00urlu:a4s\x00folder') = d8be0190b5a5d65a0fb85de08bdd6d16
  << <<49, 98, 0, 117, 114, 108, 117, 58, 97, 52, 115, 0, 102, 111, 108,
     100, 101, 114>>,
     <<100, 56, 98, 101, 48, 49, 57, 48, 98, 53, 97, 53, 100, 54, 53, 97,
     48, 102, 98, 56, 53, 100, 101, 48, 56, 98, 100, 100, 54, 100, 49,
     54>> >>,
  \* md5(b'1b\x00urlu:a3o\x00folder') = 2ef7c3358ee82e0211761b1e1dd2171d
  << <<49, 98, 0, 117, 114, 108, 117, 58, 97, 51, 111, 0, 102, 111, 108,
     100, 101, 114>>,
     <<50, 101, 102, 55, 99, 51, 51, 53, 56, 101, 101, 56, 50, 101, 48, 50,
     49, 49, 55, 54, 49, 98, 49, 101, 49, 100, 100, 50, 49, 55, 49, 100>> >>,
  \* md5(b'1b\x00urlu:a3o\x00folder4s\x00folder') = 783504e0cfdab0641dd61b12f51ed214
  << <<49, 98, 0, 117, 114, 108, 117, 58, 97, 51, 111, 0, 102, 111, 108,
     100, 101, 114, 52, 115, 0, 102, 111, 108, 100, 101, 114>>,
     <<55, 56, 51, 53, 48, 52, 101, 48, 99, 102, 100, 97, 98, 48, 54, 52,
     49, 100, 100, 54, 49, 98, 49, 50, 102, 53, 49, 101, 100, 50, 49, 52>> >>,
  \* md5(b'1b\x00folder2o\x00folder3s\x00folder') = 692ab49534c6bec5996100af317a4d14
  << <<49, 98, 0, 102, 111, 108, 100, 101, 114, 50, 111, 0, 102, 111, 108,
     100, 101, 114, 51, 115, 0, 102, 111, 108, 100, 101, 114>>,
     <<54, 57, 50, 97, 98, 52, 57, 53, 51, 52, 99, 54, 98, 101, 99, 53, 57,
     57, 54, 49, 48, 48, 97, 102, 51, 49, 55, 97, 52, 100, 49, 52>> >>,
  \* md5(b'1b\x00url2o\x00folder3s\x00folder') = f972e378e7e266827f56d41cfaaf0f12
  << <<49, 98, 0, 117, 114, 108, 50, 111, 0, 102, 111, 108, 100, 101, 114,
     51, 115, 0, 102, 111, 108, 100, 101, 114>>,
     <<102, 57, 55, 50, 101, 51, 55, 56, 101, 55, 101, 50, 54, 54, 56, 50,
     55, 102, 53, 54, 100, 52, 49, 99, 102, 97, 97, 102, 48, 102, 49, 50>> >>,
  \* md5(b'1b\x00url3o\x00folder4s\x00folder') = 839cceaa24643cd67e7733182c93c494
  << <<49, 98, 0, 117, 114, 108, 51, 111, 0, 102, 111, 108, 100, 101, 114,
     52, 115, 0, 102, 111, 108, 100, 101, 114>>,
     <<56, 51, 57, 99, 99, 101, 97, 97, 50, 52, 54, 52, 51, 99, 100, 54,
     55, 101, 55, 55, 51, 51, 49, 56, 50, 99, 57, 51, 99, 52, 57, 52>> >>,
  \* md5(b'1b\x00urlu:b3o\x00folder4s\x00folder') = 5933d9638b80b75eb16c9f37257ed61d
  << <<49, 98, 0, 117, 114, 108, 117, 58, 98, 51, 111, 0, 102, 111, 108,
     100, 101, 114, 52, 115, 0, 102, 111, 108, 100, 101, 114>>,
     <<53, 57, 51, 51, 100, 57, 54, 51, 56, 98, 56, 48, 98, 55, 53, 101,
     98, 49, 54, 99, 57, 102, 51, 55, 50, 53, 55, 101, 100, 54, 49, 100>> >>,
  \* md5(b'1b\x00urlu:x3o\x00folder4s\x00folder') = d32fb0b3b15995a5ba73bd94f1dcea19
  << <<49, 98, 0, 117, 114, 108, 117, 58, 120, 51, 111, 0, 102, 111, 108,
     100, 101, 114, 52, 115, 0, 102, 111, 108, 100, 101, 114>>,
     <<100, 51, 50, 102, 98, 48, 98, 51, 98, 49, 53, 57, 57, 53, 97, 53,
     98, 97, 55, 51, 98, 100, 57, 52, 102, 49, 100, 99, 101, 97, 49, 57>> >>,
  \* md5(b'11b\x00folder2o\x00folder3s\x00folder') = 78bdec8ec81f8df73b0f5ee48f670462
  << <<49, 49, 98, 0, 102, 111, 108, 100, 101, 114, 50, 111, 0, 102, 111,
     108, 100, 101, 114, 51, 115, 0, 102, 111, 108, 100, 101, 114>>,
     <<55, 56, 98, 100, 101, 99, 56, 101, 99, 56, 49, 102, 56, 100, 102,
     55, 51, 98, 48, 102, 53, 101, 101, 52, 56, 102, 54, 55, 48, 52, 54,
     50>> >>,
  \* md5(b'11b\x00urlu:b3o\x00folder4s\x00folder') = e67a3cdc1cf86b7115e04531aabcde2f
  << <<49, 49, 98, 0, 117, 114, 108, 117, 58, 98, 51, 111, 0, 102, 111,
     108, 100, 101, 114, 52, 115, 0, 102, 111, 108, 100, 101, 114>>,
     <<101, 54, 55, 97, 51, 99, 100, 99, 49, 99, 102, 56, 54, 98, 55, 49,
     49, 53, 101, 48, 52, 53, 51, 49, 97, 97, 98, 99, 100, 101, 50, 102>> >>,
  \* md5(b'1b\x00\xe9\x00folder2o\x00folder3s\x00folder') = 4c356e890e425bbd2c0155d3b436c9f0
  << <<49, 98, 0, 233, 0, 102, 111, 108, 100, 101, 114, 50, 111, 0, 102,
     111, 108, 100, 101, 114, 51, 115, 0, 102, 111, 108, 100, 101, 114>>,
     <<52, 99, 51, 53, 54, 101, 56, 57, 48, 101, 52, 50, 53, 98, 98, 100,
     50, 99, 48, 49, 53, 53, 100, 51, 98, 52, 51, 54, 99, 57, 102, 48>> >>,
  \* md5(b'1b\x00\xe9\x00urlu:b3o\x00folder4s\x00folder') = 3472ca4110fffd7e315f2ece60356a3c
  << <<49, 98, 0, 233, 0, 117, 114, 108, 117, 58, 98, 51, 111, 0, 102, 111,
     108, 100, 101, 114, 52, 115, 0, 102, 111, 108, 100, 101, 114>>,
     <<51, 52, 55, 50, 99, 97, 52, 49, 49, 48, 102, 102, 102, 100, 55, 101,
     51, 49, 53, 102, 50, 101, 99, 101, 54, 48, 51, 53, 54, 97, 51, 99>> >>,
  \* md5(b'1b\x00url6o\x00folder7e\x00urlu:e10s\x00folder') = 515767135a346ba3221fc652efc4c3c1
  << <<49, 98, 0, 117, 114, 108, 54, 111, 0, 102, 111, 108, 100, 101, 114,
     55, 101, 0, 117, 114, 108, 117, 58, 101, 49, 48, 115, 0, 102, 111,
     108, 100, 101, 114>>,
     <<53, 49, 53, 55, 54, 55, 49, 51, 53, 97, 51, 52, 54, 98, 97, 51, 50,
     50, 49, 102, 99, 54, 53, 50, 101, 102, 99, 52, 99, 51, 99, 49>> >>,
  \* md5(b'1b\x00folder2a\x00folder3o\x00folder4s\x00folder') = 4e2cdcd90a5209504ff5481792312c14
  << <<49, 98, 0, 102, 111, 108, 100, 101, 114, 50, 97, 0, 102, 111, 108,
     100, 101, 114, 51, 111, 0, 102, 111, 108, 100, 101, 114, 52, 115, 0,
     102, 111, 108, 100, 101, 114>>,
     <<52, 101, 50, 99, 100, 99, 100, 57, 48, 97, 53, 50, 48, 57, 53, 48,
     52, 102, 102, 53, 52, 56, 49, 55, 57, 50, 51, 49, 50, 99, 49, 52>> >>,
  \* md5(b'1b\x00folder2a\x00urlu:x3o\x00folder4s\x00folder') = 08e2fa54ebc487e0bd608d50d24c9857
  << <<49, 98, 0, 102, 111, 108, 100, 101, 114, 50, 97, 0, 117, 114, 108,
     117, 58, 120, 51, 111, 0, 102, 111, 108, 100, 101, 114, 52, 115, 0,
     102, 111, 108, 100, 101, 114>>,
     <<48, 56, 101, 50, 102, 97, 53, 52, 101, 98, 99, 52, 56, 55, 101, 48,
     98, 100, 54, 48, 56, 100, 53, 48, 100, 50, 52, 99, 57, 56, 53, 55>> >>,
  \* md5(b'1b\x00folder9x\x00urlu:x2o\x00folder3s\x00folder') = 8b2b2add686d319b18314557ed3e6806
  << <<49, 98, 0, 102, 111, 108, 100, 101, 114, 57, 120, 0, 117, 114, 108,
     117, 58, 120, 50, 111, 0, 102, 111, 108, 100, 101, 114, 51, 115, 0,
     102, 111, 108, 100, 101, 114>>,
     <<56, 98, 50, 98, 50, 97, 100, 100, 54, 56, 54, 100, 51, 49, 57, 98,
     49, 56, 51, 49, 52, 53, 53, 55, 101, 100, 51, 101, 54, 56, 48, 54>> >>,
  \* md5(b'11b\x00folder2a\x00urlu:a3o\x00folder4s\x00folder') = 919a02593b84a751aeb79e3781e541e8
  << <<49, 49, 98, 0, 102, 111, 108, 100, 101, 114, 50, 97, 0, 117, 114,
     108, 117, 58, 97, 51, 111, 0, 102, 111, 108, 100, 101, 114, 52, 115,
     0, 102, 111, 108, 100, 101, 114>>,
     <<57, 49, 57, 97, 48, 50, 53, 57, 51, 98, 56, 52, 97, 55, 53, 49, 97,
     101, 98, 55, 57, 101, 51, 55, 56, 49, 101, 53, 52, 49, 101, 56>> >>,
  \* md5(b'1b\x00folder12a\x00urlu:a3o\x00folder4s\x00folder') = 3d5d75e7237325d95613fb54dd1f8cde
  << <<49, 98, 0, 102, 111, 108, 100, 101, 114, 49, 50, 97, 0, 117, 114,
     108, 117, 58, 97, 51, 111, 0, 102, 111, 108, 100, 101, 114, 52, 115,
     0, 102, 111, 108, 100, 101, 114>>,
     <<51, 100, 53, 100, 55, 53, 101, 55, 50, 51, 55, 51, 50, 53, 100, 57,
     53, 54, 49, 51, 102, 98, 53, 52, 100, 100, 49, 102, 56, 99, 100, 101>> >>,
  \* md5(b'1b\x00folder2a\x00\xe9\x00urlu:a3o\x00folder4s\x00folder') = 45ac77752a2a370f253c49f7ccb0c777
  << <<49, 98, 0, 102, 111, 108, 100, 101, 114, 50, 97, 0, 233, 0, 117,
     114, 108, 117, 58, 97, 51, 111, 0, 102, 111, 108, 100, 101, 114, 52,
     115, 0, 102, 111, 108, 100, 101, 114>>,
     <<52, 53, 97, 99, 55, 55, 55, 53, 50, 97, 50, 97, 51, 55, 48, 102, 50,
     53, 51, 99, 52, 57, 102, 55, 99, 99, 98, 48, 99, 55, 55, 55>> >>,
  \* md5(b'1b\x00\xe9\x00folder2a\x00urlu:a3o\x00folder4s\x00folder') = c649458f81b19b3ab1f25f9c01b563ae
  << <<49, 98, 0, 233, 0, 102, 111, 108, 100, 101, 114, 50, 97, 0, 117,
     114, 108, 117, 58, 97, 51, 111, 0, 102, 111, 108, 100, 101, 114, 52,
     115, 0, 102, 111, 108, 100, 101, 114>>,
     <<99, 54, 52, 57, 52, 53, 56, 102, 56, 49, 98, 49, 57, 98, 51, 97, 98,
     49, 102, 50, 53, 102, 57, 99, 48, 49, 98, 53, 54, 51, 97, 101>> >>,
  \* md5(b'1b\x00folder9x\x00urlu:x2a\x00urlu:a3o\x00folder4s\x00folder') = 5ccbe99c8f7c7105909a45ebbd2ce9ed
  << <<49, 98, 0, 102, 111, 108, 100, 101, 114, 57, 120, 0, 117, 114, 108,
     117, 58, 120, 50, 97, 0, 117, 114, 108, 117, 58, 97, 51, 111, 0, 102,
     111, 108, 100, 101, 114, 52, 115, 0, 102, 111, 108, 100, 101, 114>>,
     <<53, 99, 99, 98, 101, 57, 57, 99, 56, 102, 55, 99, 55, 49, 48, 53,
     57, 48, 57, 97, 52, 53, 101, 98, 98, 100, 50, 99, 101, 57, 101, 100>> >>,
  \* md5(b'1b\x00folder2\xe9\x00url5d\x00urlu:d6o\x00folder7e\x00urlu:e10s\x00folder') = 9e6e72de29ade4f268560ad362f2a199
  << <<49, 98, 0, 102, 111, 108, 100, 101, 114, 50, 233, 0, 117, 114, 108,
     53, 100, 0, 117, 114, 108, 117, 58, 100, 54, 111, 0, 102, 111, 108,
     100, 101, 114, 55, 101, 0, 117, 114, 108, 117, 58, 101, 49, 48, 115,
     0, 102, 111, 108, 100, 101, 114>>,
     <<57, 101, 54, 101, 55, 50, 100, 101, 50, 57, 97, 100, 101, 52, 102,
     50, 54, 56, 53, 54, 48, 97, 100, 51, 54, 50, 102, 50, 97, 49, 57, 57>> >>,
  \* md5(b'1b\x00folder2\xe9\x00folder3a\x00urlu:a4c\x00urlu:c5d\x00urlu:d6o\x00folder7e\x00urlu:e10s\x00folder') = 920a6f42c9a9ff701aaf8a2d9f121676
  << <<49, 98, 0, 102, 111, 108, 100, 101, 114, 50, 233, 0, 102, 111, 108,
     100, 101, 114, 51, 97, 0, 117, 114, 108, 117, 58, 97, 52, 99, 0, 117,
     114, 108, 117, 58, 99, 53, 100, 0, 117, 114, 108, 117, 58, 100, 54,
     111, 0, 102, 111, 108, 100, 101, 114, 55, 101, 0, 117, 114, 108, 117,
     58, 101, 49, 48, 115, 0, 102, 111, 108, 100, 101, 114>>,
     <<57, 50, 48, 97, 54, 102, 52, 50, 99, 57, 97, 57, 102, 102, 55, 48,
     49, 97, 97, 102, 56, 97, 50, 100, 57, 102, 49, 50, 49, 54, 55, 54>> >>,
  \* md5(b'11b\x00folder2\xe9\x00folder3a\x00urlu:a4c\x00urlu:c5d\x00urlu:d6o\x00folder7e\x00urlu:e10s\x00folder') = 26cfb6ad1a2ea06441cbccf120b6b1a3
  << <<49, 49, 98, 0, 102, 111, 108, 100, 101, 114, 50, 233, 0, 102, 111,
     108, 100, 101, 114, 51, 97, 0, 117, 114, 108, 117, 58, 97, 52, 99, 0,
     117, 114, 108, 117, 58, 99, 53, 100, 0, 117, 114, 108, 117, 58, 100,
     54, 111, 0, 102, 111, 108, 100, 101, 114, 55, 101, 0, 117, 114, 108,
     117, 58, 101, 49, 48, 115, 0, 102, 111, 108, 100, 101, 114>>,
     <<50, 54, 99, 102, 98, 54, 97, 100, 49, 97, 50, 101, 97, 48, 54, 52,
     52, 49, 99, 98, 99, 99, 102, 49, 50, 48, 98, 54, 98, 49, 97, 51>> >>,
  \* md5(b'1b\x00folder12\xe9\x00folder3a\x00urlu:a4c\x00urlu:c5d\x00urlu:d6o\x00folder7e\x00urlu:e10s\x00folder') = 158f5fd7897c3584be00d44388d55086
  << <<49, 98, 0, 102, 111, 108, 100, 101, 114, 49, 50, 233, 0, 102, 111,
     108, 100, 101, 114, 51, 97, 0, 117, 114, 108, 117, 58, 97, 52, 99, 0,
     117, 114, 108, 117, 58, 99, 53, 100, 0, 117, 114, 108, 117, 58, 100,
     54, 111, 0, 102, 111, 108, 100, 101, 114, 55, 101, 0, 117, 114, 108,
     117, 58, 101, 49, 48, 115, 0, 102, 111, 108, 100, 101, 114>>,
     <<49, 53, 56, 102, 53, 102, 100, 55, 56, 57, 55, 99, 51, 53, 56, 52,
     98, 101, 48, 48, 100, 52, 52, 51, 56, 56, 100, 53, 53, 48, 56, 54>> >>,
  \* md5(b'1b\x00folder2\xe9\x00\xe9\x00folder3a\x00urlu:a4c\x00urlu:c5d\x00urlu:d6o\x00folder7e\x00urlu:e10s\x00folder') = 236ee6b3f4adccd35dbf82ef00ab877c
  << <<49, 98, 0, 102, 111, 108, 100, 101, 114, 50, 233, 0, 233, 0, 102,
     111, 108, 100, 101, 114, 51, 97, 0, 117, 114, 108, 117, 58, 97, 52,
     99, 0, 117, 114, 108, 117, 58, 99, 53, 100, 0, 117, 114, 108, 117, 58,
     100, 54, 111, 0, 102, 111, 108, 100, 101, 114, 55, 101, 0, 117, 114,
     108, 117, 58, 101, 49, 48, 115, 0, 102, 111, 108, 100, 101, 114>>,
     <<50, 51, 54, 101, 101, 54, 98, 51, 102, 52, 97, 100, 99, 99, 100, 51,
     53, 100, 98, 102, 56, 50, 101, 102, 48, 48, 97, 98, 56, 55, 55, 99>> >>,
  \* md5(b'1b\x00\xe9\x00folder2\xe9\x00folder3a\x00urlu:a4c\x00urlu:c5d\x00urlu:d6o\x00folder7e\x00urlu:e10s\x00folder') = 86c115bf6b38efd2493f9e246d8b93a5
  << <<49, 98, 0, 233, 0, 102, 111, 108, 100, 101, 114, 50, 233, 0, 102,
     111, 108, 100, 101, 114, 51, 97, 0, 117, 114, 108, 117, 58, 97, 52,
     99, 0, 117, 114, 108, 117, 58, 99, 53, 100, 0, 117, 114, 108, 117, 58,
     100, 54, 111, 0, 102, 111, 108, 100, 101, 114, 55, 101, 0, 117, 114,
     108, 117, 58, 101, 49, 48, 115, 0, 102, 111, 108, 100, 101, 114>>,
     <<56, 54, 99, 49, 49, 53, 98, 102, 54, 98, 51, 56, 101, 102, 100, 50,
     52, 57, 51, 102, 57, 101, 50, 52, 54, 100, 56, 98, 57, 51, 97, 53>> >>,
  \* md5(b'1b\x00folder2\xe9\x00folder9x\x00urlu:x3a\x00urlu:a4c\x00urlu:c5d\x00urlu:d6o\x00folder7e\x00urlu:e10s\x00folder') = 105d432085f9d832c914f043acf06c83
  << <<49, 98, 0, 102, 111, 108, 100, 101, 114, 50, 233, 0, 102, 111, 108,
     100, 101, 114, 57, 120, 0, 117, 114, 108, 117, 58, 120, 51, 97, 0,
     117, 114, 108, 117, 58, 97, 52, 99, 0, 117, 114, 108, 117, 58, 99, 53,
     100, 0, 117, 114, 108, 117, 58, 100, 54, 111, 0, 102, 111, 108, 100,
     101, 114, 55, 101, 0, 117, 114, 108, 117, 58, 101, 49, 48, 115, 0,
     102, 111, 108, 100, 101, 114>>,
     <<49, 48, 53, 100, 52, 51, 50, 48, 56, 53, 102, 57, 100, 56, 51, 50,
     99, 57, 49, 52, 102, 48, 52, 51, 97, 99, 102, 48, 54, 99, 56, 51>> >>,
  \* md5(b'1b\x00folder9x\x00urlu:x2\xe9\x00folder3a\x00urlu:a4c\x00urlu:c5d\x00urlu:d6o\x00folder7e\x00urlu:e10s\x00folder') = f13f83b998007fae44b246e1951a6421
  << <<49, 98, 0, 102, 111, 108, 100, 101, 114, 57, 120, 0, 117, 114, 108,
     117, 58, 120, 50, 233, 0, 102, 111, 108, 100, 101, 114, 51, 97, 0,
     117, 114, 108, 117, 58, 97, 52, 99, 0, 117, 114, 108, 117, 58, 99, 53,
     100, 0, 117, 114, 108, 117, 58, 100, 54, 111, 0, 102, 111, 108, 100,
     101, 114, 55, 101, 0, 117, 114, 108, 117, 58, 101, 49, 48, 115, 0,
     102, 111, 108, 100, 101, 114>>,
     <<102, 49, 51, 102, 56, 51, 98, 57, 57, 56, 48, 48, 55, 102, 97, 101,
     52, 52, 98, 50, 52, 54, 101, 49, 57, 53, 49, 97, 54, 52, 50, 49>> >>,
  \* md5(b'2o\x00folder3s\x00folder') = cc61fe463bbf6fec42005cc9ad233a08
  << <<50, 111, 0, 102, 111, 108, 100, 101, 114, 51, 115, 0, 102, 111, 108,
     100, 101, 114>>,
     <<99, 99, 54, 49, 102, 101, 52, 54, 51, 98, 98, 102, 54, 102, 101, 99,
     52, 50, 48, 48, 53, 99, 99, 57, 97, 100, 50, 51, 51, 97, 48, 56>> >>,
  \* md5(b'1b\x00urlu:\xff3o\x00folder4s\x00folder') = ac0363599dafb60441ea56f9ca796f0c
  << <<49, 98, 0, 117, 114, 108, 117, 58, 255, 51, 111, 0, 102, 111, 108,
     100, 101, 114, 52, 115, 0, 102, 111, 108, 100, 101, 114>>,
     <<97, 99, 48, 51, 54, 51, 53, 57, 57, 100, 97, 102, 98, 54, 48, 52,
     52, 49, 101, 97, 53, 54, 102, 57, 99, 97, 55, 57, 54, 102, 48, 99>> >>,
  \* md5(b'6o\x00folder7e\x00urlu:e10s\x00folder') = 116ce2810488926a25beec37513a4893
  << <<54, 111, 0, 102, 111, 108, 100, 101, 114, 55, 101, 0, 117, 114, 108,
     117, 58, 101, 49, 48, 115, 0, 102, 111, 108, 100, 101, 114>>,
     <<49, 49, 54, 99, 101, 50, 56, 49, 48, 52, 56, 56, 57, 50, 54, 97, 50,
     53, 98, 101, 101, 99, 51, 55, 53, 49, 51, 97, 52, 56, 57, 51>> >>,
  \* md5(b'1b\x00urlu:\xef\xbf\xbd3o\x00folder4s\x00folder') = 8c401ea18e8477e1f6412ec9bf560416
  << <<49, 98, 0, 117, 114, 108, 117, 58, 239, 191, 189, 51, 111, 0, 102,
     111, 108, 100, 101, 114, 52, 115, 0, 102, 111, 108, 100, 101, 114>>,
     <<56, 99, 52, 48, 49, 101, 97, 49, 56, 101, 56, 52, 55, 55, 101, 49,
     102, 54, 52, 49, 50, 101, 99, 57, 98, 102, 53, 54, 48, 52, 49, 54>> >>,
  \* md5(b'1"\x00\\\x00\n\x00\xe9\x00\xfd\xfffolder2o\x00folder3s\x00folder') = e19887b7ddb6abc828849519d238f761
  << <<49, 34, 0, 92, 0, 10, 0, 233, 0, 253, 255, 102, 111, 108, 100, 101,
     114, 50, 111, 0, 102, 111, 108, 100, 101, 114, 51, 115, 0, 102, 111,
     108, 100, 101, 114>>,
     <<101, 49, 57, 56, 56, 55, 98, 55, 100, 100, 98, 54, 97, 98, 99, 56,
     50, 56, 56, 52, 57, 53, 49, 57, 100, 50, 51, 56, 102, 55, 54, 49>> >>,
  \* md5(b'1"\x00\\\x00\n\x00\xe9\x00\xfd\xffurlu:b3o\x00folder4s\x00folder') = 7d2774f14bd2fc830bf60d8d480578af
  << <<49, 34, 0, 92, 0, 10, 0, 233, 0, 253, 255, 117, 114, 108, 117, 58,
     98, 51, 111, 0, 102, 111, 108, 100, 101, 114, 52, 115, 0, 102, 111,
     108, 100, 101, 114>>,
     <<55, 100, 50, 55, 55, 52, 102, 49, 52, 98, 100, 50, 102, 99, 56, 51,
     48, 98, 102, 54, 48, 100, 56, 100, 52, 56, 48, 53, 55, 56, 97, 102>> >>,
  \* md5(b'1b\x00folder2a\x00urlu:\xff3o\x00folder4s\x00folder') = 32773680375c3dd7e927f60bea296d9a
  << <<49, 98, 0, 102, 111, 108, 100, 101, 114, 50, 97, 0, 117, 114, 108,
     117, 58, 255, 51, 111, 0, 102, 111, 108, 100, 101, 114, 52, 115, 0,
     102, 111, 108, 100, 101, 114>>,
     <<51, 50, 55, 55, 51, 54, 56, 48, 51, 55, 53, 99, 51, 100, 100, 55,
     101, 57, 50, 55, 102, 54, 48, 98, 101, 97, 50, 57, 54, 100, 57, 97>> >>,
  \* md5(b'1b\x00folder2a\x00urlu:\xef\xbf\xbd3o\x00folder4s\x00folder') = d1ff2c5ed710c672a5eb95ad6d133493
  << <<49, 98, 0, 102, 111, 108, 100, 101, 114, 50, 97, 0, 117, 114, 108,
     117, 58, 239, 191, 189, 51, 111, 0, 102, 111, 108, 100, 101, 114, 52,
     115, 0, 102, 111, 108, 100, 101, 114>>,
     <<100, 49, 102, 102, 50, 99, 53, 101, 100, 55, 49, 48, 99, 54, 55, 50,
     97, 53, 101, 98, 57, 53, 97, 100, 54, 100, 49, 51, 51, 52, 57, 51>> >>,
  \* md5(b'1"\x00\\\x00\n\x00\xe9\x00\xfd\xfffolder2a\x00urlu:a3o\x00folder4s\x00folder') = f2d38e28b73a55ff8b25091b259e04fe
  << <<49, 34, 0, 92, 0, 10, 0, 233, 0, 253, 255, 102, 111, 108, 100, 101,
     114, 50, 97, 0, 117, 114, 108, 117, 58, 97, 51, 111, 0, 102, 111, 108,
     100, 101, 114, 52, 115, 0, 102, 111, 108, 100, 101, 114>>,
     <<102, 50, 100, 51, 56, 101, 50, 56, 98, 55, 51, 97, 53, 53, 102, 102,
     56, 98, 50, 53, 48, 57, 49, 98, 50, 53, 57, 101, 48, 52, 102, 101>> >>,
  \* md5(b'1b\x00folder2"\x00\\\x00\n\x00\xe9\x00\xfd\xffurlu:a3o\x00folder4s\x00folder') = 162a830755240f703ed298111005c9ca
  << <<49, 98, 0, 102, 111, 108, 100, 101, 114, 50, 34, 0, 92, 0, 10, 0,
     233, 0, 253, 255, 117, 114, 108, 117, 58, 97, 51, 111, 0, 102, 111,
     108, 100, 101, 114, 52, 115, 0, 102, 111, 108, 100, 101, 114>>,
     <<49, 54, 50, 97, 56, 51, 48, 55, 53, 53, 50, 52, 48, 102, 55, 48, 51,
     101, 100, 50, 57, 56, 49, 49, 49, 48, 48, 53, 99, 57, 99, 97>> >>,
  \* md5(b'1b\x00folder5d\x00urlu:d6o\x00folder7e\x00urlu:e10s\x00folder') = 47508ad0304567cba8ecf8b576c00557
  << <<49, 98, 0, 102, 111, 108, 100, 101, 114, 53, 100, 0, 117, 114, 108,
     117, 58, 100, 54, 111, 0, 102, 111, 108, 100, 101, 114, 55, 101, 0,
     117, 114, 108, 117, 58, 101, 49, 48, 115, 0, 102, 111, 108, 100, 101,
     114>>,
     <<52, 55, 53, 48, 56, 97, 100, 48, 51, 48, 52, 53, 54, 55, 99, 98, 97,
     56, 101, 99, 102, 56, 98, 53, 55, 54, 99, 48, 48, 53, 53, 55>> >>,
  \* md5(b'1"\x00\\\x00\n\x00\xe9\x00\xfd\xfffolder2\xe9\x00folder3a\x00urlu:a4c\x00urlu:c5d\x00urlu:d6o\x00folder7e\x00urlu:e10s\x00folder') = c69618a145c521c810458abbb670c0f6
  << <<49, 34, 0, 92, 0, 10, 0, 233, 0, 253, 255, 102, 111, 108, 100, 101,
     114, 50, 233, 0, 102, 111, 108, 100, 101, 114, 51, 97, 0, 117, 114,
     108, 117, 58, 97, 52, 99, 0, 117, 114, 108, 117, 58, 99, 53, 100, 0,
     117, 114, 108, 117, 58, 100, 54, 111, 0, 102, 111, 108, 100, 101, 114,
     55, 101, 0, 117, 114, 108, 117, 58, 101, 49, 48, 115, 0, 102, 111,
     108, 100, 101, 114>>,
     <<99, 54, 57, 54, 49, 56, 97, 49, 52, 53, 99, 53, 50, 49, 99, 56, 49,
     48, 52, 53, 56, 97, 98, 98, 98, 54, 55, 48, 99, 48, 102, 54>> >>,
  \* md5(b'1b\x00folder2"\x00\\\x00\n\x00\xe9\x00\xfd\xfffolder3a\x00urlu:a4c\x00urlu:c5d\x00urlu:d6o\x00folder7e\x00urlu:e10s\x00folder') = ecdf9f313e47b5bdabb3fb8cb34570c5
  << <<49, 98, 0, 102, 111, 108, 100, 101, 114, 50, 34, 0, 92, 0, 10, 0,
     233, 0, 253, 255, 102, 111, 108, 100, 101, 114, 51, 97, 0, 117, 114,
     108, 117, 58, 97, 52, 99, 0, 117, 114, 108, 117, 58, 99, 53, 100, 0,
     117, 114, 108, 117, 58, 100, 54, 111, 0, 102, 111, 108, 100, 101, 114,
     55, 101, 0, 117, 114, 108, 117, 58, 101, 49, 48, 115, 0, 102, 111,
     108, 100, 101, 114>>,
     <<101, 99, 100, 102, 57, 102, 51, 49, 51, 101, 52, 55, 98, 53, 98,
     100, 97, 98, 98, 51, 102, 98, 56, 99, 98, 51, 52, 53, 55, 48, 99, 53>> >>
>>

\* hex.EncodeToString(md5.Sum(m)).  A stream that is not in the table has a
\* digest that no other stream and no text has: the byte 0 and the stream.
MD5Hex(m) ==
    IF \E i \in 1..Len(MD5Table) : MD5Table[i][1] = m
    THEN MD5Table[CHOOSE i \in 1..Len(MD5Table) : MD5Table[i][1] = m][2]
    ELSE <<0>> \o m

\* Bookmarks.CalculateChecksum
CalculateChecksum(b) == MD5Hex(HashStream(b))

(***************************************************************************)
(* Decode: the result (doc, valid, err), doc being a pointer.             *)
(***************************************************************************)
NilPtr == [IsNil |-> TRUE, b |-> ZeroBookmarks]
Ptr(b) == [IsNil |-> FALSE, b |-> b]

ErrEOF == "EOF"

\* The error of reading one JSON value from data, as json.Decoder gives it.
JSONError(data, err) ==
    CASE err = "syntax" -> ErrSyntax
      [] err = "eof" ->
            IF \A i \in 1..Len(data) : IsSpace(data[i]) THEN ErrEOF
            ELSE ErrUnexpectedEOF
      [] OTHER -> ""

\* A faulty Decode: a checksum mismatch is reported as an error.
DecodeMismatchIsError(data) ==
    LET checked(b) ==
          IF b.Checksum = CalculateChecksum(b)
          THEN [doc |-> Ptr(b), valid |-> TRUE, err |-> ""]
          ELSE [doc |-> NilPtr, valid |-> FALSE, err |-> "checksum mismatch"]
        decoded(u) ==
          IF u.err # "" THEN [doc |-> NilPtr, valid |-> FALSE, err |-> u.err]
          ELSE checked(u.v)
        read(p) ==
          IF p.err # ""
          THEN [doc |-> NilPtr, valid |-> FALSE, err |-> JSONError(data, p.err)]
          ELSE decoded(UnmarshalBookmarks(p.val))
    IN  read(ParseValue(data, 1))

\* Decode(r), r reading the bytes data.
Decode(data) ==
    LET \* return &b, b.Checksum == b.CalculateChecksum(), nil
        checked(b) ==
          [doc |-> Ptr(b), valid |-> b.Checksum = CalculateChecksum(b), err |-> ""]
        \* if err := d.Decode(&b); err != nil { return nil, false, err }
        decoded(u) ==
          IF u.err # "" THEN [doc |-> NilPtr, valid |-> FALSE, err |-> u.err]
          ELSE checked(u.v)
        read(p) ==
          IF p.err # ""
          THEN [doc |-> NilPtr, valid |-> FALSE, err |-> JSONError(data, p.err)]
          ELSE decoded(UnmarshalBookmarks(p.val))
    IN  read(ParseValue(data, 1))

(***************************************************************************)
(* Go's compact JSON text (no white space), for inputs that are not in    *)
(* Chrome's layout.                                                        *)
(***************************************************************************)
RECURSIVE CompactText(_)
RECURSIVE CompactJoin(_, _)

CompactText(v) ==
    CASE v.k = "arr" -> <<91>> \o CompactJoin(v, 1) \o <<93>>
      [] v.k = "obj" -> <<123>> \o CompactJoin(v, 1) \o <<125>>
      [] OTHER -> ChromeText(v, 0)

CompactJoin(v, i) ==
    IF i > Len(v.items) THEN <<>>
    ELSE (IF v.k = "obj"
          THEN Quote(v.items[i][1]) \o <<58>> \o CompactText(v.items[i][2])
          ELSE CompactText(v.items[i]))
         \o (IF i < Len(v.items) THEN <<44>> ELSE <<>>)
         \o CompactJoin(v, i + 1)

(***************************************************************************)
(* The documents of the carver's inputs.                                   *)
(***************************************************************************)
\* The document object with checksum sum, the members extra, the roots of
\* tree b and version ver.
DocJSON(sum, extra, b, ver) ==
    JObj(<< <<B_checksum, JStr(sum)>> >> \o extra
         \o << <<B_roots, RootsJSON(b)>>, <<B_version, JNum(ver)>> >>)

\* A checksum with its first hexadecimal digit altered.
Altered(sum) == [sum EXCEPT ![1] = IF sum[1] = 48 THEN 49 ELSE 48]

\* `{\n   "checksum": "d41d8cd98f00b204e9800998ecf8427e"\n}`: a document
\* with no roots and no version, whose checksum is the MD5 of no bytes.
TinyDoc == ChromeText(JObj(<< <<B_checksum, JStr(MD5Hex(<<>>))>> >>), 0)

\* A genuine document of tree b as Chrome writes it.
GoodDoc(b) == ChromeText(DocJSON(CalculateChecksum(b), <<>>, b, <<49>>), 0)

\* The prefix, a checksum "0", the confirmation literal and the start of a
\* children array: a candidate whose JSON value is still open.
OpenText ==
    s1 \o <<48, 34, 44, 10>> \o s2 \o <<10>> \o Indent(3) \o Quote(B_children)
       \o <<58, 32, 91, 32>>

\* The text of a piece of a source.
PieceText(p) ==
    CASE p = "x" -> <<120>>
      [] p = "brace" -> <<123>>
      [] p = "partial" -> SubSeq(s1, 1, 5)
      [] p = "prefix" -> s1
      [] p = "pad" -> Repeat(120, LookaheadSize)
      [] p = "marker" -> s2
      [] p = "strq" -> <<44, 32, 34>>
      [] p = "open" -> OpenText
      [] p = "docA" -> GoodDoc(TreeA)
      [] p = "docB" -> GoodDoc(TreeB)
      [] p = "bad" ->
            ChromeText(DocJSON(Altered(CalculateChecksum(TreeA)), <<>>, TreeA,
                               <<49>>), 0)
      [] p = "cut" -> SubSeq(GoodDoc(TreeA), 1, Len(GoodDoc(TreeA)) - 40)
      [] p = "tiny" -> TinyDoc
      [] p = "nest" ->
            ChromeText(DocJSON(CalculateChecksum(TreeA),
                               << <<B_meta_info, JRaw(TinyDoc)>> >>, TreeA,
                               <<49>>), 0)
      [] p = "unk" ->
            ChromeText(DocJSON(CalculateChecksum(TreeA),
                               << <<<<102, 111, 111>>, JNum(<<49>>)>> >>, TreeA,
                               <<49>>), 0)
      [] p = "v2" -> ChromeText(DocJSON(CalculateChecksum(TreeA), <<>>, TreeA,
                                        <<50>>), 0)
      [] p = "compact" ->
            s1 \o CalculateChecksum(TreeA) \o <<34, 44>>
               \o Quote(B_roots) \o <<58>> \o CompactText(RootsJSON(TreeA))
               \o <<44>> \o Quote(B_version) \o <<58, 49, 125>>

\* The pieces that are genuine Chrome-written, checksum-valid documents.
ChromeDocs == {"docA", "docB"}

\* The source made of the pieces of layout l.
SourceOf(l) == Concat([i \in 1..Len(l) |-> PieceText(l[i])])

\* The offset at which the i-th piece of layout l starts.
PieceOffset(l, i) == Len(SourceOf(SubSeq(l, 1, i - 1)))

\* The most garbage bytes put in front of a document.
MaxGarbage == 1

\* What may stand before a document: nothing, garbage, a brace, a partial
\* prefix, a whole prefix.
Pres ==
    {[i \in 1..n |-> "x"] : n \in 0..MaxGarbage}
      \cup {<<"brace">>, <<"partial">>, <<"prefix">>}

Posts == {<<>>, <<"x">>, <<"pad">>, <<"marker", "pad">>}

Layouts ==
    {pre \o <<"docA">> \o post : pre \in Pres, post \in Posts}
      \cup {<<d>> \o post :
              d \in {"bad", "cut", "tiny", "nest", "unk", "v2", "compact"},
              post \in Posts}
      \cup {<<"docA">> \o sep \o <<"docB", "pad">> :
              sep \in {<<>>, <<"x">>, <<"brace">>}}
      \cup {<<"open", "docB", "strq", "pad">>}
      \cup Pres

(***************************************************************************)
(* The inputs of Decode: documents whose fields are present, absent or    *)
(* out of their set, one choice per field.                                 *)
(***************************************************************************)
BarChoices ==
    {"folder", "folderKid", "url", "notype", "badtype", "nulltype", "urlKids",
     "folderNoKids", "extra"}

KidJSON == NodeJSON(URLNode(2, <<97>>, <<117, 58, 97>>))

\* The bookmark_bar object of choice c.
BarJSON(c) ==
    LET id == <<B_id, JStr(<<49>>)>>
        name == <<B_name, JStr(<<98>>)>>
        type(t) == <<B_type, t>>
        kids(k) == <<B_children, JArr(k)>>
    IN  CASE c = "folder" -> JObj(<<kids(<<>>), id, name, type(JStr(B_folder))>>)
          [] c = "folderKid" ->
               JObj(<<kids(<<KidJSON>>), id, name, type(JStr(B_folder))>>)
          [] c = "url" ->
               JObj(<<id, name, type(JStr(B_url)), <<B_url, JStr(<<117, 58, 97>>)>> >>)
          [] c = "notype" -> JObj(<<id, name>>)
          [] c = "badtype" -> JObj(<<id, name, type(JStr(B_other))>>)
          [] c = "nulltype" -> JObj(<<id, name, type(JNull)>>)
          [] c = "urlKids" ->
               JObj(<<kids(<<KidJSON>>), id, name, type(JStr(B_url)),
                      <<B_url, JStr(<<117, 58, 97>>)>> >>)
          [] c = "folderNoKids" -> JObj(<<id, name, type(JStr(B_folder))>>)
          [] c = "extra" ->
               JObj(<<kids(<<>>), <<<<102, 111, 111>>, JNum(<<49>>)>>, id, name,
                      type(JStr(B_folder))>>)

\* The roots object of a choice [present, bar, other, synced], other and
\* synced being present (a folder) or absent.
RootsChoiceJSON(r) ==
    JObj(<< <<B_bookmark_bar, BarJSON(r.bar)>> >>
         \o (IF r.other THEN << <<B_other, NodeJSON(FolderNode(3, <<111>>, <<>>))>> >>
             ELSE <<>>)
         \o (IF r.synced
             THEN << <<B_synced, NodeJSON(FolderNode(4, <<115>>, <<>>))>> >>
             ELSE <<>>))

RootsChoices ==
    {[present |-> FALSE, bar |-> "folder", other |-> FALSE, synced |-> FALSE]}
      \cup [present : {TRUE}, bar : BarChoices, other : BOOLEAN, synced : BOOLEAN]

VersionChoices == {"absent", "1", "2", "null", "string"}

VersionMember(c) ==
    CASE c = "absent" -> <<>>
      [] c = "1" -> << <<B_version, JNum(<<49>>)>> >>
      [] c = "2" -> << <<B_version, JNum(<<50>>)>> >>
      [] c = "null" -> << <<B_version, JNull>> >>
      [] c = "string" -> << <<B_version, JStr(<<49>>)>> >>

ChecksumChoices == {"absent", "own", "other", "number"}

\* The members of a document but its checksum.
BodyMembers(r, v) ==
    (IF r.present THEN << <<B_roots, RootsChoiceJSON(r)>> >> ELSE <<>>)
      \o VersionMember(v)

\* The checksum member of choice c for a document of the members body:
\* "own" is the checksum of the tree that the members decode to.
ChecksumMember(c, body) ==
    CASE c = "absent" -> <<>>
      [] c = "own" ->
            << <<B_checksum,
                 JStr(CalculateChecksum(UnmarshalBookmarks(JObj(body)).v))>> >>
      [] c = "other" -> << <<B_checksum, JStr(Altered(MD5Hex(<<>>)))>> >>
      [] c = "number" -> << <<B_checksum, JNum(<<49>>)>> >>

\* Where a member may be added to a document: its top level, its roots
\* object, the bookmark_bar node, the child of that node.
Places == {"top", "roots", "node", "child"}

\* Members to add at place w: "foo" names no field anywhere; "upper" is the
\* name of a field of that place in capital letters, with a value the field
\* accepts.
ExtraMember(kind, w) ==
    CASE kind = "foo" -> <<<<102, 111, 111>>, JNum(<<49>>)>>
      [] w = "top" -> <<<<86, 69, 82, 83, 73, 79, 78>>, JNum(<<49>>)>>
      [] w = "roots" ->
           <<<<79, 84, 72, 69, 82>>, NodeJSON(FolderNode(3, <<111>>, <<>>))>>
      [] w = "node" -> <<<<84, 89, 80, 69>>, JStr(B_folder)>>
      [] w = "child" -> <<<<84, 89, 80, 69>>, JStr(B_url)>>

\* The document of TreeA, with its checksum, as Chrome writes it, and the
\* member m added at place w.
InjectedDoc(w, m) ==
    LET x(at) == IF at = w THEN <<m>> ELSE <<>>
        kid == JObj(KidJSON.items \o x("child"))
        bar == JObj(<< <<B_children, JArr(<<kid>>)>>, <<B_id, JStr(<<49>>)>>,
                       <<B_name, JStr(<<98>>)>>, <<B_type, JStr(B_folder)>> >>
                    \o x("node"))
        roots == JObj(<< <<B_bookmark_bar, bar>>,
                         <<B_other, NodeJSON(FolderNode(3, <<111>>, <<>>))>>,
                         <<B_synced, NodeJSON(FolderNode(4, <<115>>, <<>>))>> >>
                      \o x("roots"))
    IN  ChromeText(JObj(<< <<B_checksum, JStr(CalculateChecksum(TreeA))>> >>
                        \o x("top")
                        \o << <<B_roots, roots>>, <<B_version, JNum(<<49>>)>> >>), 0)

InjectedInputs ==
    {InjectedDoc(w, ExtraMember(kind, w)) : w \in Places, kind \in {"foo", "upper"}}

DecodeInputs ==
    {ChromeText(JObj(ChecksumMember(c, BodyMembers(r, v)) \o BodyMembers(r, v)), 0) :
        c \in ChecksumChoices, r \in RootsChoices, v \in VersionChoices}
      \cup {<<>>, <<32>>, <<110, 117, 108, 108>>, <<91, 93>>, <<123>>,
            PieceText("cut"), PieceText("compact") \o <<120>>}
      \cup InjectedInputs

(***************************************************************************)
(* Documents given to CalculateChecksum and Walk as Go values.            *)
(***************************************************************************)
\* A tree three levels deep: bookmark_bar "b" holds the folder U+00E9 (two
\* bookmarks) and a bookmark; other holds one bookmark; synced is empty.
TreeC ==
    Tree(FolderNode(1, <<98>>,
            <<FolderNode(2, <<195, 169>>,
                 <<URLNode(3, <<97>>, <<117, 58, 97>>),
                   URLNode(4, <<99>>, <<117, 58, 99>>)>>),
              URLNode(5, <<100>>, <<117, 58, 100>>)>>),
         FolderNode(6, <<111>>, <<URLNode(7, <<101>>, <<117, 58, 101>>)>>),
         FolderNode(10, <<115>>, <<>>))

\* bookmark_bar is a bookmark that has a child, other is a folder whose
\* Children is nil, synced is a folder with a URL.
TreeD ==
    Tree([URLNode(1, <<98>>, <<117, 58, 98>>) EXCEPT
             !.HasChildren = TRUE,
             !.Children = <<URLNode(2, <<97>>, <<117, 58, 97>>)>>],
         [FolderNode(3, <<111>>, <<>>) EXCEPT !.HasChildren = FALSE],
         [FolderNode(4, <<115>>, <<>>) EXCEPT !.URL = <<117, 58, 115>>])

Trees == {TreeA, TreeB, TreeC, TreeD}

\* A map[string]string with the entries ps.
MapOf(ps) == [IsNil |-> FALSE, Pairs |-> ps]

\* The fields of a node that CalculateChecksum reads, and the others.
HashedFields == {"ID", "Name", "Type", "URL", "Children"}
OtherFields ==
    {"GUID", "DateAdded", "DateLastUsed", "DateModified", "ShowIcon",
     "Source", "MetaInfo", "UnsyncedMetaInfo", "FolderURL"}

\* Node n with the field fld given another value.
AlterNode(n, fld) ==
    CASE fld = "ID" -> [n EXCEPT !.ID = n.ID + 10]
      [] fld = "Name" -> [n EXCEPT !.Name = n.Name \o <<195, 169>>]
      [] fld = "Type" ->
            [n EXCEPT !.Type = IF n.Type = NodeTypeURL THEN NodeTypeFolder
                                ELSE NodeTypeURL]
      [] fld = "URL" -> [n EXCEPT !.URL = <<117, 58, 120>>]
      [] fld = "Children" ->
            [n EXCEPT !.HasChildren = TRUE,
                      !.Children = <<URLNode(9, <<120>>, <<117, 58, 120>>)>>
                                     \o n.Children]
      [] fld = "GUID" -> [n EXCEPT !.GUID = <<103>>]
      [] fld = "DateAdded" -> [n EXCEPT !.DateAdded = 7]
      [] fld = "DateLastUsed" -> [n EXCEPT !.DateLastUsed = 7]
      [] fld = "DateModified" -> [n EXCEPT !.DateModified = 7]
      [] fld = "ShowIcon" -> [n EXCEPT !.ShowIcon = ~n.ShowIcon]
      [] fld = "Source" -> [n EXCEPT !.Source = <<115>>]
      [] fld = "MetaInfo" -> [n EXCEPT !.MetaInfo = MapOf({<<<<107>>, <<118>>>>})]
      [] fld = "UnsyncedMetaInfo" ->
            [n EXCEPT !.UnsyncedMetaInfo = MapOf({<<<<107>>, <<118>>>>})]
      [] fld = "FolderURL" ->
            IF n.Type = NodeTypeFolder THEN [n EXCEPT !.URL = <<117, 58, 120>>]
            ELSE n
      \* a URL that is not valid UTF-8
      [] fld = "ByteURL" -> [n EXCEPT !.URL = <<117, 58, 255>>]
      \* a name with a quote, a backslash, a line feed, U+00E9 and a byte
      \* that is not valid UTF-8
      [] fld = "OddName" -> [n EXCEPT !.Name = <<34, 92, 10, 195, 169, 255>>]
      [] fld = "NoDateAdded" -> [n EXCEPT !.DateAdded = 0]
      [] fld = "NoType" -> [n EXCEPT !.Type = <<>>]

\* The fields of the document itself, none of which is hashed.
TopFields == {"Checksum", "Version", "SyncMetadata", "TopMetaInfo"}

\* Document b with one field given another value: a field of the
\* document, of the bookmark_bar root ("root") or of its first child.
AlterTree(b, at, fld) ==
    CASE fld = "Checksum" -> [b EXCEPT !.Checksum = <<48>>]
      [] fld = "Version" -> [b EXCEPT !.Version = 2]
      [] fld = "SyncMetadata" ->
            [b EXCEPT !.SyncMetadata = [IsNil |-> FALSE, B |-> <<1>>]]
      [] fld = "TopMetaInfo" ->
            [b EXCEPT !.MetaInfo = MapOf({<<<<107>>, <<118>>>>, <<<<97>>, <<>>>>})]
      [] fld = "EmptySync" ->
            [b EXCEPT !.SyncMetadata = [IsNil |-> FALSE, B |-> <<>>]]
      [] at = "root" ->
            [b EXCEPT !.Roots.BookmarkBar = AlterNode(@, fld)]
      [] OTHER ->
            IF b.Roots.BookmarkBar.Children = <<>> THEN b
            ELSE [b EXCEPT !.Roots.BookmarkBar.Children[1] = AlterNode(@, fld)]

RECURSIVE AlterAll(_, _, _)
\* Document b with every field of flds given another value.
AlterAll(b, at, flds) ==
    IF flds = {} THEN b
    ELSE LET fld == CHOOSE x \in flds : TRUE
         IN  AlterAll(AlterTree(b, at, fld), at, flds \ {fld})

\* The pairs of documents whose checksums are compared: a tree and the
\* same tree with one field altered, or with every field altered that
\* CalculateChecksum does not read.
ChecksumInputs ==
    {<<b, AlterTree(b, at, fld)>> :
        b \in Trees, at \in {"root", "child"},
        fld \in HashedFields \cup OtherFields \cup TopFields}
      \cup {<<b, AlterAll(AlterAll(b, "root", OtherFields \cup TopFields),
                          "child", OtherFields)>> : b \in Trees}

(***************************************************************************)
(* Encode: json.Encoder with SetIndent("", "   ") and SetEscapeHTML(false) *)
(* over *Bookmarks.  A MarshalJSON method yields [err, v], v the bytes it  *)
(* returns; a field yields [err, v], v its JSON value.                     *)
(***************************************************************************)
ErrMarshalerEOF == "json: error calling MarshalJSON: unexpected end of JSON input"
ErrMarshalerSyntax == "json: error calling MarshalJSON: invalid character"

\* Version.MarshalJSON
VersionMarshalJSON(v) ==
    IF VersionValid(v) # "" THEN DRes(VersionValid(v), <<>>) ELSE DRes("", Itoa(v))

\* NodeType.MarshalJSON.  json.Marshal of a string that is valid here has
\* nothing to escape, and likewise for Source, GUID, Time and Bytes.
NodeTypeMarshalJSON(t) ==
    IF NodeTypeValid(t) # "" THEN DRes(NodeTypeValid(t), <<>>) ELSE DRes("", Quote(t))

\* Source.MarshalJSON
SourceMarshalJSON(s) ==
    IF SourceValid(s) # "" THEN DRes(SourceValid(s), <<>>) ELSE DRes("", Quote(s))

\* GUID.MarshalJSON
GUIDMarshalJSON(s) ==
    IF GUIDValid(s) # "" THEN DRes(GUIDValid(s), <<>>) ELSE DRes("", Quote(s))

\* Time.MarshalJSON: nil bytes and a nil error for the zero time.
TimeMarshalJSON(t) ==
    IF t = 0 THEN DRes("", <<>>) ELSE DRes("", Quote(Itoa(t)))

\* The digit of the standard base64 alphabet for the value v.
B64Char(v) ==
    CASE v < 26 -> 65 + v
      [] v < 52 -> 71 + v
      [] v < 62 -> v - 4
      [] v = 62 -> 43
      [] OTHER -> 47

RECURSIVE B64Encode(_)
\* base64.StdEncoding.EncodeToString
B64Encode(c) ==
    LET byte(i) == IF i <= Len(c) THEN c[i] ELSE 0
        n == byte(1) * 65536 + byte(2) * 256 + byte(3)
        quad == <<B64Char(n \div 262144), B64Char((n \div 4096) % 64),
                  IF Len(c) < 2 THEN 61 ELSE B64Char((n \div 64) % 64),
                  IF Len(c) < 3 THEN 61 ELSE B64Char(n % 64)>>
    IN  IF c = <<>> THEN <<>>
        ELSE quad \o B64Encode(SubSeq(c, 4, Len(c)))

\* Bytes.MarshalJSON
BytesMarshalJSON(c) ==
    CASE c.IsNil -> DRes("", B_null)
      [] c.B = <<>> -> DRes("", <<34, 34>>)
      [] OTHER -> DRes("", Quote(B64Encode(c.B)))

\* What the encoder makes of the result r of a MarshalJSON method: its
\* error, or the bytes compacted, which fails unless they are one JSON value.
Marshaled(r) ==
    LET compact(p) ==
          IF p.err = "eof" THEN DRes(ErrMarshalerEOF, JNull)
          ELSE IF p.err # "" \/ SkipSpace(r.v, p.next) <= Len(r.v)
               THEN DRes(ErrMarshalerSyntax, JNull)
          ELSE DRes("", p.val)
    IN  IF r.err # "" THEN DRes(r.err, JNull) ELSE compact(ParseValue(r.v, 1))

\* A field of a struct being encoded: its key and the result of encoding
\* its value, or the mark that omitempty leaves it out.
Field(key, r) == [key |-> key, omit |-> FALSE, err |-> r.err, v |-> r.v]
Omitted == [key |-> <<>>, omit |-> TRUE, err |-> "", v |-> JNull]

\* The object of the fields fs in their order, those left out by omitempty
\* excepted; the first error ends it.
StructValue(fs) ==
    IF \E i \in 1..Len(fs) : fs[i].err # ""
    THEN DRes(fs[CHOOSE i \in 1..Len(fs) :
                    /\ fs[i].err # ""
                    /\ \A j \in 1..(i - 1) : fs[j].err = ""].err, JNull)
    ELSE DRes("", JObj([i \in 1..Cardinality({j \in 1..Len(fs) : ~fs[j].omit}) |->
                          LET x == fs[CHOOSE j \in 1..Len(fs) :
                                        /\ ~fs[j].omit
                                        /\ Cardinality({k \in 1..j : ~fs[k].omit}) = i]
                          IN  <<x.key, x.v>>]))

\* a sorts before b as a string.
BytesLess(a, b) ==
    \E i \in 1..(Len(b)) :
        /\ \A j \in 1..(i - 1) : j <= Len(a) /\ a[j] = b[j]
        /\ (i > Len(a) \/ a[i] < b[i])

RECURSIVE MapMembers(_)
\* The members of a map: its entries, sorted by key.
MapMembers(ps) ==
    IF ps = {} THEN <<>>
    ELSE LET p == CHOOSE x \in ps : \A y \in ps \ {x} : BytesLess(x[1], y[1])
         IN  <<<<p[1], JStr(p[2])>>>> \o MapMembers(ps \ {p})

\* A map[string]string field with omitempty.
MapField(key, m) ==
    IF m.Pairs = {} THEN Omitted ELSE Field(key, DRes("", JObj(MapMembers(m.Pairs))))

\* A Time field with omitempty.
TimeField(key, t) ==
    IF t = 0 THEN Omitted ELSE Field(key, Marshaled(TimeMarshalJSON(t)))

RECURSIVE EncodeNode(_)

\* []BookmarkNode
EncodeNodes(cs) ==
    LET array(rs) ==
          IF \E i \in 1..Len(rs) : rs[i].err # ""
          THEN DRes(rs[CHOOSE i \in 1..Len(rs) :
                          /\ rs[i].err # ""
                          /\ \A j \in 1..(i - 1) : rs[j].err = ""].err, JNull)
          ELSE DRes("", JArr([i \in 1..Len(rs) |-> rs[i].v]))
    IN  array([i \in 1..Len(cs) |-> EncodeNode(cs[i])])

\* BookmarkNode
EncodeNode(n) ==
    StructValue(<<
      IF n.HasChildren THEN Field(B_children, EncodeNodes(n.Children)) ELSE Omitted,
      Field(B_date_added, Marshaled(TimeMarshalJSON(n.DateAdded))),
      TimeField(B_date_last_used, n.DateLastUsed),
      TimeField(B_date_modified, n.DateModified),
      Field(B_guid, Marshaled(GUIDMarshalJSON(n.GUID))),
      Field(B_id, DRes("", JStr(Itoa(n.ID)))),
      Field(B_name, DRes("", JStr(n.Name))),
      IF n.ShowIcon THEN Field(B_show_icon, DRes("", JVal("true", <<>>, <<>>)))
      ELSE Omitted,
      IF n.Source = <<>> THEN Omitted
      ELSE Field(B_source, Marshaled(SourceMarshalJSON(n.Source))),
      Field(B_type, Marshaled(NodeTypeMarshalJSON(n.Type))),
      IF n.URL = <<>> THEN Omitted ELSE Field(B_url, DRes("", JStr(n.URL))),
      MapField(B_meta_info, n.MetaInfo),
      MapField(B_unsynced_meta_info, n.UnsyncedMetaInfo)>>)

\* Bookmarks
EncodeBookmarks(b) ==
    StructValue(<<
      Field(B_checksum, DRes("", JStr(b.Checksum))),
      Field(B_roots, StructValue(<<
          Field(B_bookmark_bar, EncodeNode(b.Roots.BookmarkBar)),
          Field(B_other, EncodeNode(b.Roots.Other)),
          Field(B_synced, EncodeNode(b.Roots.MobileBookmark))>>)),
      IF b.SyncMetadata.B = <<>> THEN Omitted
      ELSE Field(B_sync_metadata, Marshaled(BytesMarshalJSON(b.SyncMetadata))),
      Field(B_version, Marshaled(VersionMarshalJSON(b.Version))),
      MapField(B_meta_info, b.MetaInfo),
      MapField(B_unsynced_meta_info, b.UnsyncedMetaInfo)>>)

\* The hexadecimal digit of the value v.
HexDigit(v) == IF v < 10 THEN 48 + v ELSE 87 + v

\* The bytes the encoder writes as they are: ASCII from the space on,
\* the quote and the backslash excepted.
PlainByte(c) == c >= 32 /\ c < 128 /\ c # 34 /\ c # 92

\* The number of bytes of s before its first byte that is not plain.
PlainRun(s) ==
    IF \A k \in 1..Len(s) : PlainByte(s[k]) THEN Len(s)
    ELSE (CHOOSE k \in 1..Len(s) :
             /\ ~PlainByte(s[k])
             /\ \A j \in 1..(k - 1) : PlainByte(s[j])) - 1

RECURSIVE EscapeString(_)
\* The content of the string literal the encoder writes for s, HTML
\* characters not escaped: a byte of invalid UTF-8 is written as \ufffd.
\* A run of plain bytes is written in one step.
EscapeString(s) ==
    LET rest(k) == EscapeString(SubSeq(s, k + 1, Len(s)))
        rune(r) ==
          CASE r.cp \in {34, 92} -> <<92, r.cp>> \o rest(1)
            [] r.cp = 8 -> <<92, 98>> \o rest(1)
            [] r.cp = 12 -> <<92, 102>> \o rest(1)
            [] r.cp = 10 -> <<92, 110>> \o rest(1)
            [] r.cp = 13 -> <<92, 114>> \o rest(1)
            [] r.cp = 9 -> <<92, 116>> \o rest(1)
            [] r.cp < 32 ->
                  <<92, 117, 48, 48, HexDigit(r.cp \div 16), HexDigit(r.cp % 16)>>
                    \o rest(1)
            [] r.cp = 65533 /\ r.size = 1 ->
                  <<92, 117, 102, 102, 102, 100>> \o rest(1)
            [] r.cp \in {8232, 8233} ->
                  <<92, 117, 50, 48, 50, HexDigit(r.cp % 16)>> \o rest(3)
            [] OTHER -> SubSeq(s, 1, r.size) \o rest(r.size)
        plain(n) ==
          IF n > 0 THEN SubSeq(s, 1, n) \o rest(n) ELSE rune(DecodeRune(s))
    IN  IF s = <<>> THEN <<>> ELSE plain(PlainRun(s))

RECURSIVE GoText(_, _)
RECURSIVE GoJoin(_, _, _)

\* The text of value v at nesting depth d, indented as json.Indent does.
GoText(v, d) ==
    CASE v.k = "str" -> Quote(EscapeString(v.s))
      [] v.k = "num" -> v.s
      [] v.k = "true" -> <<116, 114, 117, 101>>
      [] v.k = "false" -> <<102, 97, 108, 115, 101>>
      [] v.k = "null" -> B_null
      [] v.items = <<>> -> IF v.k = "arr" THEN <<91, 93>> ELSE <<123, 125>>
      [] OTHER ->
            (IF v.k = "arr" THEN <<91, 10>> ELSE <<123, 10>>)
              \o GoJoin(v, 1, d + 1) \o <<10>> \o Indent(d)
              \o (IF v.k = "arr" THEN <<93>> ELSE <<125>>)

\* The elements or members of v from the i-th on.
GoJoin(v, i, d) ==
    Concat([k \in 1..(Len(v.items) + 1 - i) |->
              Indent(d)
                \o (IF v.k = "obj"
                    THEN Quote(EscapeString(v.items[i + k - 1][1])) \o <<58, 32>>
                           \o GoText(v.items[i + k - 1][2], d)
                    ELSE GoText(v.items[i + k - 1], d))
                \o (IF i + k - 1 < Len(v.items) THEN <<44, 10>> ELSE <<>>)])

\* Encode(w, b): the error returned and the bytes written to w.  Nothing
\* is written when encoding fails; the value is followed by a newline.
Encode(b) ==
    LET written(r) ==
          IF r.err # "" THEN [err |-> r.err, out |-> <<>>]
          ELSE [err |-> "", out |-> GoText(r.v, 0) \o <<10>>]
    IN  IF b.IsNil THEN [err |-> "", out |-> B_null \o <<10>>]
        ELSE written(EncodeBookmarks(b.b))

(***************************************************************************)
(* Documents given to Encode.                                              *)
(***************************************************************************)
\* A GUID that is valid: 00000000-0000-4000-a000-000000000000.
GoodGUID ==
    [i \in 1..36 |-> CASE i \in {9, 14, 19, 24} -> 45
                       [] i = 15 -> 52
                       [] i = 20 -> 97
                       [] OTHER -> 48]

RECURSIVE CompleteNode(_)
\* Node n and the nodes below it with a valid GUID and the time t as the
\* time they were added.
CompleteNode(n) ==
    [n EXCEPT !.GUID = GoodGUID, !.DateAdded = 13,
              !.Children = [i \in 1..Len(n.Children) |-> CompleteNode(n.Children[i])]]

\* Document b with every node complete.
Complete(b) ==
    [b EXCEPT !.Roots = [BookmarkBar |-> CompleteNode(b.Roots.BookmarkBar),
                         Other |-> CompleteNode(b.Roots.Other),
                         MobileBookmark |-> CompleteNode(b.Roots.MobileBookmark)]]

\* Document b with the checksum field set to its checksum.
Signed(b) == [b EXCEPT !.Checksum = CalculateChecksum(b)]

\* Further values of fields for the documents given to Encode.
EncodeFields == {"ByteURL", "OddName", "NoDateAdded", "NoType", "EmptySync"}

\* The documents given to Encode: complete trees with one field altered
\* before or after the checksum field is set, and the nil pointer.
EncodeInputs ==
    {NilPtr}
      \cup {Ptr(AlterTree(Signed(Complete(b)), at, fld)) :
              b \in Trees, at \in {"root", "child"},
              fld \in HashedFields \cup OtherFields \cup TopFields \cup EncodeFields}
      \cup {Ptr(Signed(AlterTree(Complete(b), at, fld))) :
              b \in Trees, at \in {"root", "child"},
              fld \in HashedFields \cup OtherFields \cup TopFields \cup EncodeFields}

(***************************************************************************)
(* GUID.Bytes, GUID.Canonical and GUID.String.                             *)
(***************************************************************************)
\* xv: the value of each byte as a hexadecimal digit, 255 for none; the
\* entry of byte c is xv[c + 1].
xv == <<
      255, 255, 255, 255, 255, 255, 255, 255, 255, 255, 255, 255, 255, 255, 255, 255,
      255, 255, 255, 255, 255, 255, 255, 255, 255, 255, 255, 255, 255, 255, 255, 255,
      255, 255, 255, 255, 255, 255, 255, 255, 255, 255, 255, 255, 255, 255, 255, 255,
      0, 1, 2, 3, 4, 5, 6, 7, 8, 9, 255, 255, 255, 255, 255, 255,
      255, 10, 11, 12, 13, 14, 15, 255, 255, 255, 255, 255, 255, 255, 255, 255,
      255, 255, 255, 255, 255, 255, 255, 255, 255, 255, 255, 255, 255, 255, 255, 255,
      255, 10, 11, 12, 13, 14, 15, 255, 255, 255, 255, 255, 255, 255, 255, 255,
      255, 255, 255, 255, 255, 255, 255, 255, 255, 255, 255, 255, 255, 255, 255, 255,
      255, 255, 255, 255, 255, 255, 255, 255, 255, 255, 255, 255, 255, 255, 255, 255,
      255, 255, 255, 255, 255, 255, 255, 255, 255, 255, 255, 255, 255, 255, 255, 255,
      255, 255, 255, 255, 255, 255, 255, 255, 255, 255, 255, 255, 255, 255, 255, 255,
      255, 255, 255, 255, 255, 255, 255, 255, 255, 255, 255, 255, 255, 255, 255, 255,
      255, 255, 255, 255, 255, 255, 255, 255, 255, 255, 255, 255, 255, 255, 255, 255,
      255, 255, 255, 255, 255, 255, 255, 255, 255, 255, 255, 255, 255, 255, 255, 255,
      255, 255, 255, 255, 255, 255, 255, 255, 255, 255, 255, 255, 255, 255, 255, 255,
      255, 255, 255, 255, 255, 255, 255, 255, 255, 255, 255, 255, 255, 255, 255, 255>>

\* A faulty xtob: only the digits 0-9 and a-f count.
xtobLowerOnly(x1, x2) ==
    LET val(c) == IF c \in 65..70 THEN 255 ELSE xv[c + 1]
        both(b1, b2) ==
          [v |-> IF b2 = 255 THEN 255 ELSE ((b1 * 16) % 256) + b2,
           ok |-> b1 # 255 /\ b2 # 255]
    IN  both(val(x1), val(x2))

\* xtob: (b1 << 4) | b2 as a byte, and whether both are digits.
xtob(x1, x2) ==
    LET both(b1, b2) ==
          [v |-> IF b2 = 255 THEN 255 ELSE ((b1 * 16) % 256) + b2,
           ok |-> b1 # 255 /\ b2 # 255]
    IN  both(xv[x1 + 1], xv[x2 + 1])

\* The offsets of the byte pairs, in the order GUID.Bytes reads them.
GUIDOffsets == <<0, 2, 4, 6, 9, 11, 14, 16, 19, 21, 24, 26, 28, 30, 32, 34>>

\* GUID.Bytes: the array u and the error.  The loop returns at the first
\* pair that is not hexadecimal, with the bytes before it set.
GUIDBytes(s) ==
    LET zero == [i \in 1..16 |-> 0]
        pair(i) == xtob(s[GUIDOffsets[i] + 1], s[GUIDOffsets[i] + 2])
        bad == {i \in 1..16 : ~pair(i).ok}
        parsed(k) == [i \in 1..16 |-> IF i < k THEN pair(i).v ELSE 0]
    IN  IF Len(s) # 36 \/ s[9] # 45 \/ s[14] # 45 \/ s[19] # 45 \/ s[24] # 45
        THEN [u |-> zero, err |-> ErrGUIDFormat]
        ELSE IF bad # {}
             THEN [u |-> parsed(CHOOSE k \in bad : \A j \in bad : k <= j),
                   err |-> ErrGUIDHex]
        ELSE [u |-> parsed(17), err |-> ""]

\* GUID.Canonical: fmt.Sprintf("%x-%x-%x-%x-%x", u[0:4], u[4:6], u[6:8],
\* u[8:10], u[10:]) and the error of GUID.Bytes.
GUIDCanonical(s) ==
    LET hex(u, a, b) ==
          Concat([i \in 1..(b - a) |->
                    <<HexDigit(u[a + i] \div 16), HexDigit(u[a + i] % 16)>>])
        text(r) ==
          [v |-> hex(r.u, 0, 4) \o <<45>> \o hex(r.u, 4, 6) \o <<45>>
                   \o hex(r.u, 6, 8) \o <<45>> \o hex(r.u, 8, 10) \o <<45>>
                   \o hex(r.u, 10, 16),
           err |-> r.err]
    IN  text(GUIDBytes(s))

\* GUID.String: v, _ := s.Canonical(); return v
GUIDString(s) == GUIDCanonical(s).v

\* The strings given to the GUID methods: two valid GUIDs, one of them
\* with capital digits, each with one or two bytes replaced, one byte
\* dropped or one added.
GUIDBases ==
    {GoodGUID,
     <<48, 49, 50, 51, 65, 66, 67, 68, 45, 69, 70, 97, 98, 45, 99, 100, 101,
       102, 45, 56, 57, 65, 66, 45, 67, 68, 69, 70, 48, 49, 50, 51, 52, 53,
       54, 55>>}

\* The bytes put in place of a byte of a GUID: the ends of the ranges of
\* the digits and their neighbours, the dash, and the bytes 0 and 255.
GUIDBytesPut == {0, 45, 47, 48, 57, 58, 64, 65, 70, 71, 96, 97, 102, 103, 255}

GUIDInputs ==
    GUIDBases
      \cup {[g EXCEPT ![i] = c] : g \in GUIDBases, i \in 1..36, c \in GUIDBytesPut}
      \cup {[g EXCEPT ![i] = 103, ![j] = 120] :
               g \in GUIDBases, i \in {1, 9, 36}, j \in {2, 14, 24, 35}}
      \cup {SubSeq(g, 1, 35) : g \in GUIDBases}
      \cup {g \o <<48>> : g \in GUIDBases}
      \cup {<<>>}

(***************************************************************************)
(* Documents whose sibling nodes are exchanged.                            *)
(***************************************************************************)
\* The sibling nodes: two bookmarks with id 1 and no name whose URLs are
\* "a" and "a1urla", two ordinary bookmarks alike but for the URL, a folder
\* with a bookmark in it, and two nodes of no type.
SiblingPool ==
    {URLNode(1, <<>>, <<97>>),
     URLNode(1, <<>>, <<97, 49, 117, 114, 108, 97>>),
     URLNode(2, <<97>>, <<117, 58, 97>>),
     URLNode(2, <<97>>, <<117, 58, 98>>),
     FolderNode(4, <<195, 169>>, <<URLNode(5, <<101>>, <<117, 58, 101>>)>>),
     AlterNode(URLNode(7, <<103>>, <<117, 58, 103>>), "NoType"),
     AlterNode(URLNode(8, <<103>>, <<117, 58, 103>>), "NoType")}

\* The most siblings in a folder of these documents.
MaxSiblings == 3

\* The lists of two to MaxSiblings different siblings.
SiblingLists ==
    {cs \in UNION {[1..k -> SiblingPool] : k \in 2..MaxSiblings} :
        \A i, j \in 1..Len(cs) : i # j => cs[i] # cs[j]}

\* The document whose siblings cs are the children of bookmark_bar ("bar")
\* or of a folder that is the first child of other ("nested").
SiblingTree(cs, at) ==
    IF at = "bar"
    THEN Tree(FolderNode(10, <<98>>, cs), FolderNode(11, <<111>>, <<>>),
              FolderNode(12, <<115>>, <<>>))
    ELSE Tree(FolderNode(10, <<98>>, <<>>),
              FolderNode(11, <<111>>,
                 <<FolderNode(13, <<102>>, cs),
                   URLNode(14, <<104>>, <<117, 58, 104>>)>>),
              FolderNode(12, <<115>>, <<>>))

\* cs with its i-th and j-th elements exchanged.
Exchanged(cs, i, j) ==
    [k \in 1..Len(cs) |-> IF k = i THEN cs[j] ELSE IF k = j THEN cs[i] ELSE cs[k]]

\* A document and the same document with two siblings exchanged.
ExchangeInputs ==
    UNION {{[docs |-> <<SiblingTree(cs, at),
                        SiblingTree(Exchanged(cs, ij[1], ij[2]), at)>>,
             cs |-> cs, i |-> ij[1], j |-> ij[2]] :
               at \in {"bar", "nested"},
               ij \in {p \in (1..Len(cs)) \X (1..Len(cs)) : p[1] < p[2]}} :
           cs \in SiblingLists}

(***************************************************************************)
(* The state.  Carve runs over the source f, whose byte at offset errAt   *)
(* (and every byte after it) cannot be read when errAt is less than the   *)
(* length of f: a read gives the bytes before errAt and then the error    *)
(* ErrIO.  With errAt = Len(f) the source is read to its end (io.EOF).    *)
(***************************************************************************)
VARIABLES
    layout,   \* the pieces f was made of (what the source really holds)
    f,        \* the io.ReaderAt given to Carve: its bytes
    errAt,    \* the offset of the first unreadable byte, or Len(f)
    pc,       \* where Carve is: "scan", "candidate", "sink", "done"
    off,      \* var off int64: the bytes consumed from r
    jb,       \* jb json.RawMessage: the bytes of the last structural decode
    obj,      \* obj of the last call of Decode in Carve
    calls,    \* the sink invocations so far: [off, buf, obj, res, held]
    ret,      \* the error Carve returned ("" is nil), once pc = "done"
    lost,     \* the read errors that Carve met and did not return
    din,      \* the bytes given to a direct call of Decode
    dout,     \* its result [doc, valid, err]
    dpc,      \* "idle", "call" or "done"
    lin,      \* the arguments of a call of Walk, CalculateChecksum or Encode
    lout,     \* its result
    lpc       \* "idle", "call" or "done"

vars ==
    <<layout, f, errAt, pc, off, jb, obj, calls, ret, lost, din, dout, dpc,
      lin, lout, lpc>>
carveVars == <<layout, f, errAt, pc, off, jb, obj, calls, ret, lost>>
decodeVars == <<din, dout, dpc>>
libVars == <<lin, lout, lpc>>

\* No call of Walk, CalculateChecksum or Encode is made.
LibIdle == lin = <<>> /\ lout = <<>> /\ lpc = "idle"

ErrIO == "read: input/output error"

\* ErrBreak = errors.New("break")
ErrBreak == "break"
\* Some other error a sink returns.
ErrSink == "sink failed"
\* What a sink invocation may return.
SinkResults == {"", ErrBreak, ErrSink}

\* The number of bytes of f that can be read, from offset 0 on.
Readable == errAt

\* The source fails with a read error other than end-of-source.
Failing == errAt < Len(f)

\* The error of reading the byte at offset p: none, io.EOF or the read error.
ReadErr(p) ==
    IF p < Readable THEN "" ELSE IF Failing THEN ErrIO ELSE ErrEOF

\* Where the unreadable byte of a source of n bytes may be.
ErrSpots(n) == {p \in {1, n \div 2, n - 1} : 0 <= p /\ p < n}

DecodeIdle == [doc |-> NilPtr, valid |-> FALSE, err |-> ""]

\* Carve(f, fn) is called.
Init ==
    /\ layout \in Layouts
    /\ f = SourceOf(layout)
    /\ errAt \in {Len(f)} \cup ErrSpots(Len(f))
    /\ pc = "scan"
    /\ off = 0
    /\ jb = <<>>
    /\ obj = NilPtr
    /\ calls = <<>>
    /\ ret = ""
    /\ lost = <<>>
    /\ din = <<>> /\ dout = DecodeIdle /\ dpc = "idle"
    /\ LibIdle

RECURSIVE MatchPrefixUnread(_, _)
\* A faulty MatchPrefix: the byte that fails to match is not consumed.
MatchPrefixUnread(i, o) ==
    IF i > Len(s1) THEN [outcome |-> "match", err |-> "", off |-> o]
    ELSE IF ReadErr(o) # ""
         THEN [outcome |-> "return",
               err |-> IF ReadErr(o) = ErrEOF THEN "" ELSE ReadErr(o), off |-> o]
    ELSE IF f[o + 1] # s1[i] THEN [outcome |-> "mismatch", err |-> "", off |-> o]
    ELSE MatchPrefixUnread(i + 1, o + 1)

RECURSIVE MatchPrefix(_, _)
\* for _, x := range s1, from the i-th byte of s1 on with o bytes consumed:
\* the outcome "match", "mismatch" (nm) or "return", the error returned and
\* the new value of off.
MatchPrefix(i, o) ==
    IF i > Len(s1) THEN [outcome |-> "match", err |-> "", off |-> o]
    ELSE IF ReadErr(o) # ""
         THEN [outcome |-> "return",
               err |-> IF ReadErr(o) = ErrEOF THEN "" ELSE ReadErr(o), off |-> o]
    ELSE IF f[o + 1] # s1[i] THEN [outcome |-> "mismatch", err |-> "", off |-> o + 1]
    ELSE MatchPrefix(i + 1, o + 1)

\* One pass of the prefix loop: it ends at a mismatch, at a full match or at
\* the end of the source.
Scan ==
    /\ pc = "scan"
    /\ LET matched(m) ==
             /\ off' = m.off
             /\ pc' = CASE m.outcome = "match" -> "candidate"
                        [] m.outcome = "mismatch" -> "scan"
                        [] OTHER -> "done"
             /\ ret' = m.err
       IN  matched(MatchPrefix(1, off))
    /\ UNCHANGED <<layout, f, errAt, jb, obj, calls, lost, decodeVars, libVars>>

\* sr.Read(sb) on sr = io.NewSectionReader(f, o, MaxSize): the bytes read
\* and the error; a short read comes with an error.
Lookahead(o) ==
    LET read(want, n) ==
          [sb |-> Slice(f, o, o + n),
           err |-> IF n < want THEN ReadErr(o + n) ELSE ""]
    IN  read(Min2(LookaheadSize, MaxSize),
             Min2(Min2(LookaheadSize, MaxSize),
                  IF Readable > o THEN Readable - o ELSE 0))

\* What io.MultiReader(s1, sb, sr) delivers after the lookahead read sb: the
\* prefix, the lookahead and the rest of the window, up to the first byte
\* that cannot be read.
Window(o, sb) ==
    s1 \o sb \o Slice(f, o + Len(sb), Min2(Readable, Min2(Len(f), o + MaxSize)))

\* The candidate after a matched prefix: the lookahead, the confirmation
\* literal, the structural decode, Decode and the checksum.
\*   step is "return" (a read error), "reject" (continue) or "accept".
Candidate(o) ==
    LET none == [step |-> "reject", err |-> "", jb |-> jb, obj |-> obj, lost |-> ""]
        \* obj, valid, err := Decode(bytes.NewReader(jb))
        decoded(raw, d) ==
          [none EXCEPT !.step = IF d.err # "" \/ ~d.valid THEN "reject" ELSE "accept",
                       !.jb = raw, !.obj = d.doc]
        \* json.NewDecoder(io.MultiReader(...)).Decode(&jb) over the window w:
        \* the decoder stops for want of bytes where the window ends
        structural(w, p) ==
          IF p.err # ""
          THEN [none EXCEPT !.lost = IF p.err = "eof"
                                        /\ ReadErr(o - Len(s1) + Len(w)) = ErrIO
                                     THEN ErrIO ELSE ""]
          ELSE decoded(SubSeq(w, 1, p.next - 1), Decode(SubSeq(w, 1, p.next - 1)))
        window(w) == structural(w, ParseValue(w, 1))
        lookahead(la) ==
          IF la.err # "" THEN [none EXCEPT !.step = "return", !.err = la.err]
          ELSE IF ~Contains(la.sb, s2) THEN none
          ELSE window(Window(o, la.sb))
    IN  lookahead(Lookahead(o))

\* What a slice of the array of jb shows once the structural decode has
\* stored raw: RawMessage.UnmarshalJSON is *m = append((*m)[0:0], data...),
\* and jb is made once (line 30) with capacity MaxSize, so raw is written
\* from the start of the one array for as long as it fits.
Overwritten(held, raw) ==
    IF Len(raw) > MaxSize THEN held
    ELSE [k \in 1..Len(held) |-> IF k <= Len(raw) THEN raw[k] ELSE held[k]]

\* Lines 54 to 78 of Carve.
Examine ==
    /\ pc = "candidate"
    /\ LET examined(c) ==
             /\ pc' = CASE c.step = "accept" -> "sink"
                        [] c.step = "reject" -> "scan"
                        [] OTHER -> "done"
             /\ ret' = c.err
             /\ jb' = c.jb
             /\ calls' = [i \in 1..Len(calls) |->
                            [calls[i] EXCEPT !.held = Overwritten(@, c.jb)]]
             /\ obj' = c.obj
             /\ lost' = IF c.lost # ""
                        THEN Append(lost, [err |-> c.lost, calls |-> Len(calls)])
                        ELSE lost
       IN  examined(Candidate(off))
    /\ UNCHANGED <<layout, f, errAt, off, decodeVars, libVars>>

\* A faulty MatchOffset: the offset after the prefix, len(s1) not taken off.
MatchOffsetAfterPrefix(o) == o

\* The offset Carve gives the sink.
MatchOffset(o) == o - Len(s1)

\* A faulty AfterSink: ErrBreak is returned like any other error.
AfterSinkNoSentinel(res) ==
    [pc |-> IF res = "" THEN "scan" ELSE "done", ret |-> res]

\* What Carve does with the sink's result: go on, or return.
AfterSink(res) ==
    [pc |-> IF res = "" THEN "scan" ELSE "done",
     ret |-> IF res = ErrBreak THEN "" ELSE res]

\* fn(off-int64(len(s1)), []byte(jb), obj), the sink returning res.  buf
\* is the bytes of jb at the call; []byte(jb) is a slice of the array of jb,
\* and held is what that slice shows from then on.
Sink ==
    /\ pc = "sink"
    /\ \E res \in SinkResults :
          /\ calls' = Append(calls, [off |-> MatchOffset(off), buf |-> jb,
                                     obj |-> obj, res |-> res, held |-> jb])
          /\ pc' = AfterSink(res).pc
          /\ ret' = AfterSink(res).ret
    /\ UNCHANGED <<layout, f, errAt, off, jb, obj, lost, decodeVars, libVars>>

Next == Scan \/ Examine \/ Sink

Spec == Init /\ [][Next]_vars

(***************************************************************************)
(* Decode called directly on an input.                                     *)
(***************************************************************************)
DecodeInit ==
    /\ layout = <<>> /\ f = <<>> /\ errAt = 0 /\ pc = "idle" /\ off = 0
    /\ jb = <<>> /\ obj = NilPtr /\ calls = <<>> /\ ret = "" /\ lost = <<>>
    /\ din \in DecodeInputs
    /\ dout = DecodeIdle
    /\ dpc = "call"
    /\ LibIdle

\* doc, valid, err := Decode(bytes.NewReader(din))
DecodeCall ==
    /\ dpc = "call"
    /\ dout' = Decode(din)
    /\ dpc' = "done"
    /\ UNCHANGED <<din, carveVars, libVars>>

DecodeNext == DecodeCall

DecodeSpec == DecodeInit /\ [][DecodeNext]_vars

(***************************************************************************)
(* Calls of CalculateChecksum: one for each document of lin, in turn.     *)
(***************************************************************************)
\* Carve and Decode are not running.
OthersIdle ==
    /\ layout = <<>> /\ f = <<>> /\ errAt = 0 /\ pc = "idle" /\ off = 0
    /\ jb = <<>> /\ obj = NilPtr /\ calls = <<>> /\ ret = "" /\ lost = <<>>
    /\ din = <<>> /\ dout = DecodeIdle /\ dpc = "idle"

ChecksumInit ==
    /\ OthersIdle
    /\ lin \in ChecksumInputs
    /\ lout = <<>>
    /\ lpc = "call"

\* sum := b.CalculateChecksum(), b the next document of lin
ChecksumCall ==
    /\ lpc = "call"
    /\ lout' = Append(lout, CalculateChecksum(lin[Len(lout) + 1]))
    /\ lpc' = IF Len(lout) + 1 = Len(lin) THEN "done" ELSE "call"
    /\ UNCHANGED <<lin, carveVars, decodeVars>>

ChecksumNext == ChecksumCall

ChecksumSpec == ChecksumInit /\ [][ChecksumNext]_vars

(***************************************************************************)
(* Walk with a visitor.  A WalkFunc fn is nil or returns the error        *)
(* fn.err at its visit number fn.at and at every later one (fn.at = 0:    *)
(* it always returns nil).  A walk yields the visits [n, parents] made    *)
(* so far and its error.                                                   *)
(***************************************************************************)
WalkFunc(at, err) == [IsNil |-> FALSE, at |-> at, err |-> err]
NilWalkFunc == [IsNil |-> TRUE, at |-> 0, err |-> ""]

\* fn(n, parents...), the visit being the last one of seen.
Visit(fn, seen) == IF fn.at > 0 /\ Len(seen) >= fn.at THEN fn.err ELSE ""

WRes(seen, err) == [seen |-> seen, err |-> err]

RECURSIVE walkFn(_, _, _, _)
RECURSIVE walkRange(_, _, _, _, _)

\* for _, c := range *n.Children { if err := c.walk(fn, append(parents,
\* c.Name)...); err != nil { return err } }, from the i-th child on.
walkRange(cs, i, parents, fn, seen) ==
    LET next(r) ==
          IF r.err # "" THEN r
          ELSE walkRange(cs, i + 1, parents, fn, r.seen)
    IN  IF i > Len(cs) THEN WRes(seen, "")
        ELSE next(walkFn(cs[i], Append(parents, cs[i].Name), fn, seen))

\* A faulty walk: the children are visited before the node.
walkFnPostOrder(n, parents, fn, seen) ==
    LET visited(r) ==
          IF r.err # "" THEN r
          ELSE WRes(Append(r.seen, [n |-> n, parents |-> parents]), "")
    IN  IF n.Type = NodeTypeFolder /\ n.HasChildren
        THEN visited(walkRange(n.Children, 1, parents, fn, seen))
        ELSE visited(WRes(seen, ""))

\* n.walk(fn, parents...)
walkFn(n, parents, fn, seen) ==
    LET visited(s) ==
          IF Visit(fn, s) # "" THEN WRes(s, Visit(fn, s))
          ELSE IF n.Type = NodeTypeFolder /\ n.HasChildren
               THEN walkRange(n.Children, 1, parents, fn, s)
               ELSE WRes(s, "")
    IN  visited(Append(seen, [n |-> n, parents |-> parents]))

\* if err == ErrBreak { err = nil }; return err
BreakIsNil(r) == IF r.err = ErrBreak THEN WRes(r.seen, "") ELSE r

\* A faulty Bookmarks.Walk: ErrBreak ends the walk of one root only.
BookmarksWalkBreakEndsRoot(b, fn) ==
    LET third(r) ==
          IF r.err # "" /\ r.err # ErrBreak THEN r
          ELSE BreakIsNil(walkFn(b.Roots.MobileBookmark, <<>>, fn, r.seen))
        second(r) ==
          IF r.err # "" /\ r.err # ErrBreak THEN r
          ELSE third(walkFn(b.Roots.Other, <<>>, fn, r.seen))
    IN  IF fn.IsNil THEN WRes(<<>>, "")
        ELSE second(walkFn(b.Roots.BookmarkBar, <<>>, fn, <<>>))

\* Bookmarks.Walk
BookmarksWalk(b, fn) ==
    LET third(r) ==
          IF r.err # "" THEN BreakIsNil(r)
          ELSE BreakIsNil(walkFn(b.Roots.MobileBookmark, <<>>, fn, r.seen))
        second(r) ==
          IF r.err # "" THEN BreakIsNil(r)
          ELSE third(walkFn(b.Roots.Other, <<>>, fn, r.seen))
    IN  IF fn.IsNil THEN WRes(<<>>, "")
        ELSE second(walkFn(b.Roots.BookmarkBar, <<>>, fn, <<>>))

\* BookmarkNode.Walk
NodeWalk(n, fn) ==
    IF fn.IsNil THEN WRes(<<>>, "")
    ELSE BreakIsNil(walkFn(n, <<>>, fn, <<>>))

\* The most visits a walk of a tree of the model makes.
MaxVisits == 8

\* The visitors: nil, one that always returns nil, and those that return
\* ErrBreak or another error from some visit on.
WalkFuncs ==
    {NilWalkFunc, WalkFunc(0, "")}
      \cup {WalkFunc(at, err) : at \in 1..MaxVisits, err \in {ErrBreak, ErrSink}}

\* The calls of Walk: on a document, or on its bookmark_bar node.
WalkInputs ==
    [on : {"Bookmarks", "BookmarkNode"}, b : Trees, fn : WalkFuncs]

WalkInit ==
    /\ OthersIdle
    /\ lin \in WalkInputs
    /\ lout = <<>>
    /\ lpc = "call"

\* err := b.Walk(fn)
BookmarksWalkCall ==
    /\ lpc = "call" /\ lin.on = "Bookmarks"
    /\ lout' = BookmarksWalk(lin.b, lin.fn)
    /\ lpc' = "done"
    /\ UNCHANGED <<lin, carveVars, decodeVars>>

\* err := b.Roots.BookmarkBar.Walk(fn)
NodeWalkCall ==
    /\ lpc = "call" /\ lin.on = "BookmarkNode"
    /\ lout' = NodeWalk(lin.b.Roots.BookmarkBar, lin.fn)
    /\ lpc' = "done"
    /\ UNCHANGED <<lin, carveVars, decodeVars>>

WalkNext == BookmarksWalkCall \/ NodeWalkCall

WalkSpec == WalkInit /\ [][WalkNext]_vars

(***************************************************************************)
(* Encode, and Decode of what it wrote.                                    *)
(***************************************************************************)
EncodeInit ==
    /\ OthersIdle
    /\ lin \in EncodeInputs
    /\ lout = <<>>
    /\ lpc = "call"

\* err := Encode(w, lin), w a bytes.Buffer; when it succeeds the bytes
\* written are given to Decode next.
EncodeCall ==
    /\ lpc = "call"
    /\ lout' = Encode(lin)
    /\ lpc' = "done"
    /\ din' = lout'.out
    /\ dpc' = IF lout'.err = "" THEN "call" ELSE "idle"
    /\ UNCHANGED <<lin, dout, carveVars>>

EncodeNext == EncodeCall \/ DecodeCall

EncodeSpec == EncodeInit /\ [][EncodeNext]_vars

(***************************************************************************)
(* Calls of the GUID methods on the string lin.                            *)
(***************************************************************************)
GUIDInit ==
    /\ OthersIdle
    /\ lin \in GUIDInputs
    /\ lout = <<>>
    /\ lpc = "call"

\* u, err := g.Bytes(); verr := g.Valid(); str := g.String()
GUIDCall ==
    /\ lpc = "call"
    /\ lout' = [u |-> GUIDBytes(lin).u, err |-> GUIDBytes(lin).err,
                verr |-> GUIDValid(lin), str |-> GUIDString(lin)]
    /\ lpc' = "done"
    /\ UNCHANGED <<lin, carveVars, decodeVars>>

GUIDNext == GUIDCall

GUIDSpec == GUIDInit /\ [][GUIDNext]_vars

(***************************************************************************)
(* Calls of CalculateChecksum on a document and on the document with two  *)
(* siblings exchanged: what is written to the hash, and the sum.           *)
(***************************************************************************)
HashInit ==
    /\ OthersIdle
    /\ lin \in ExchangeInputs
    /\ lout = <<>>
    /\ lpc = "call"

\* sum := b.CalculateChecksum(), b the next document of lin.docs: h is the
\* bytes of the h.Write calls of the visitor, in order.
HashCall ==
    /\ lpc = "call"
    /\ lout' = Append(lout, [h |-> HashStream(lin.docs[Len(lout) + 1]),
                             sum |-> CalculateChecksum(lin.docs[Len(lout) + 1])])
    /\ lpc' = IF Len(lout) + 1 = Len(lin.docs) THEN "done" ELSE "call"
    /\ UNCHANGED <<lin, carveVars, decodeVars>>

HashNext == HashCall

HashSpec == HashInit /\ [][HashNext]_vars

(***************************************************************************)
(* Carve run to its end.                                                   *)
(***************************************************************************)
\* Carve runs on: the loop of lines 33 to 88 goes from one step to the next
\* for as long as Carve has not returned, and the sink returns each time it
\* is invoked.  The third condition is WF_vars(Examine) with
\* ENABLED <<Examine>>_vars written as pc = "candidate", which is the only
\* guard of Examine (every step of Examine changes pc).
LiveSpec ==
    /\ Spec
    /\ WF_vars(Scan)
    /\ WF_vars(Sink)
    /\ ([]<>(pc # "candidate") \/ []<><<Examine>>_vars)

(***************************************************************************)
(* Properties of Carve.                                                    *)
(***************************************************************************)
\* Carve has returned.
Returned == pc = "done"

\* The sink has returned nil every time so far.
SinkContinues == \A i \in 1..Len(calls) : calls[i].res = ""

\* The last sink invocation.
LastCall == calls[Len(calls)]

\* The index of the one piece of layout l that is in the set ps.
PieceIndex(l, ps) == CHOOSE i \in 1..Len(l) : l[i] \in ps

\* The pieces that hold no document: garbage, fragments of the prefix, the
\* confirmation literal.
Filler == {"x", "brace", "partial", "prefix", "pad", "marker"}

\* Layout l holds exactly one genuine document, docA, among filler.
OneDocument(l) ==
    /\ \E i \in 1..Len(l) : l[i] = "docA"
    /\ \A i \in 1..Len(l) : l[i] # "docA" => l[i] \in Filler

\* Layout l holds docA and later docB, possibly separated, then padding.
TwoDocuments(l) ==
    /\ Len(l) >= 3
    /\ l[1] = "docA"
    /\ l[Len(l) - 1] = "docB"
    /\ l[Len(l)] = "pad"

\* C1: on a source that is read to its end and holds exactly one genuine
\* document at offset p among other bytes, with a sink that returns nil,
\* Carve returns after exactly one sink invocation, made with off = p and a
\* buf as long as the document.
C1_OneDocumentOneCall ==
    (Returned /\ ~Failing /\ SinkContinues /\ OneDocument(layout)) =>
        /\ Len(calls) = 1
        /\ calls[1].off = PieceOffset(layout, PieceIndex(layout, {"docA"}))
        /\ Len(calls[1].buf) = Len(PieceText("docA"))

\* The offset of docB in a two-document layout l.
SecondOffset(l) == PieceOffset(l, Len(l) - 1)

\* C2: the offsets of successive sink invocations are strictly increasing,
\* and on a source holding docA and then docB, read to its end with a sink
\* that returns nil, the sink is invoked for docA first and then for docB.
C2_TwoDocumentsInOrder ==
    /\ \A i \in 1..Len(calls) : \A j \in 1..Len(calls) :
          i < j => calls[i].off < calls[j].off
    /\ (Returned /\ ~Failing /\ SinkContinues /\ TwoDocuments(layout)) =>
          \E i \in 1..Len(calls) : \E j \in (i + 1)..Len(calls) :
             /\ calls[i].off = 0
             /\ calls[i].buf = PieceText("docA")
             /\ calls[j].off = SecondOffset(layout)
             /\ calls[j].buf = PieceText("docB")

\* C2 fails: of docA, "{", docB and padding, Carve has reported docA alone.
C2_SecondDocumentMissed ==
    /\ layout = <<"docA", "brace", "docB", "pad">>
    /\ Returned /\ ~Failing /\ SinkContinues
    /\ Len(calls) = 1
    /\ calls[1].off = 0

\* The part of C2 that holds in every run: the offsets of successive sink
\* invocations are strictly increasing, and on a source holding docA and
\* then docB an invocation for docB is never made before one for docA.
AscendingOffsets ==
    /\ \A i \in 1..Len(calls) : \A j \in 1..Len(calls) :
          i < j => calls[i].off < calls[j].off
    /\ TwoDocuments(layout) =>
          \A j \in 1..Len(calls) :
             calls[j].off = SecondOffset(layout) =>
                \E i \in 1..(j - 1) : calls[i].off = 0

\* Both documents of a two-document source were given to the sink, the
\* lower one first.
BothDocumentsReported ==
    /\ TwoDocuments(layout)
    /\ Len(calls) = 2
    /\ calls[1].off = 0
    /\ calls[1].buf = PieceText("docA")
    /\ calls[2].off = SecondOffset(layout)
    /\ calls[2].buf = PieceText("docB")

\* C3: the byte ranges [off, off + len(buf)) of two sink invocations of one
\* run are disjoint: a later match starts at or after the end of an
\* earlier one.
C3_DisjointMatches ==
    \A i \in 1..Len(calls) : \A j \in 1..Len(calls) :
       i < j => calls[i].off + Len(calls[i].buf) <= calls[j].off

\* What C4 says of one sink invocation c.
ValidCall(c) ==
    /\ c.buf = Slice(f, c.off, c.off + Len(c.buf))
    /\ HasPrefix(c.buf, s1)
    /\ Decode(c.buf) = [doc |-> c.obj, valid |-> TRUE, err |-> ""]
    /\ ~c.obj.IsNil

\* C4: for every sink invocation (off, buf, obj), at the step that makes
\* it, buf is the source bytes [off, off + len(buf)), buf starts with the
\* prefix literal and Decode of buf gives obj, valid and no error; and the
\* regions of a document with an altered checksum, of a truncated document,
\* of a document with an unknown field and of a document of another version
\* give no invocation.
C4_CallsAreValidDocuments ==
    [][/\ calls' # calls => ValidCall(calls'[Len(calls')])
       /\ (layout # <<>> /\ layout[1] \in {"bad", "cut", "unk", "v2"})
             => calls' = <<>>]_vars

\* C4 happens: the sink was invoked for a document that follows garbage in
\* the source.
C4_Witness ==
    /\ calls # <<>>
    /\ LastCall.off > 0
    /\ LastCall.buf = PieceText("docA")
    /\ LastCall.obj = Ptr([TreeA EXCEPT !.Checksum = CalculateChecksum(TreeA)])

\* C5: with a source that is read to its end and a sink that returns nil,
\* Carve returns nil wherever the source ends.
C5_EndOfSourceIsNil ==
    (Returned /\ ~Failing /\ SinkContinues) => ret = ""

\* C6: once the sink has returned a non-nil result, Carve has returned: that
\* invocation is the last one, nothing was consumed or examined after it,
\* and Carve's result is nil for ErrBreak and the sink's error otherwise.
C6_SinkStops ==
    \A i \in 1..Len(calls) :
       calls[i].res # "" =>
          /\ i = Len(calls)
          /\ Returned
          /\ ret = (IF calls[i].res = ErrBreak THEN "" ELSE calls[i].res)
          /\ off = calls[i].off + Len(s1)
          /\ jb = calls[i].buf
          /\ obj = calls[i].obj

\* C6 happens: the sink stopped Carve with an error at the first of two
\* documents.
C6_Witness ==
    /\ TwoDocuments(layout)
    /\ Len(calls) = 1
    /\ calls[1].res = ErrSink
    /\ Returned
    /\ ret = ErrSink

\* C7: a read error other than end-of-source that Carve meets makes it
\* return that error at once: Carve has returned the error, and the sink
\* was not invoked after the failed read.
C7_ReadErrorIsFatal ==
    \A i \in 1..Len(lost) :
       /\ Returned
       /\ ret = lost[i].err
       /\ Len(calls) = lost[i].calls

\* C8: every buf given to the sink starts with the prefix literal and
\* contains the confirmation literal.
C8_BufHoldsBothLiterals ==
    \A i \in 1..Len(calls) :
       HasPrefix(calls[i].buf, s1) /\ Contains(calls[i].buf, s2)

(***************************************************************************)
(* Properties of Decode.                                                   *)
(***************************************************************************)
\* Decode has returned.
Decoded == dpc = "done"

RECURSIVE Nodes(_)
\* Node n and all its descendants.
Nodes(n) == {n} \cup UNION {Nodes(n.Children[i]) : i \in 1..Len(n.Children)}

\* Every node of document b: the three roots and all their descendants.
AllNodes(b) ==
    Nodes(b.Roots.BookmarkBar) \cup Nodes(b.Roots.Other)
      \cup Nodes(b.Roots.MobileBookmark)

\* What Decode is to return for an input that is one JSON value p which
\* decodes into the struct as u, and for one that is not.
DecodeContract(p, u) ==
    IF p.err = "" /\ u.err = ""
    THEN /\ dout.err = ""
         /\ dout.doc = Ptr(u.v)
         /\ dout.valid = (u.v.Checksum = CalculateChecksum(u.v))
    ELSE /\ dout.err # ""
         /\ dout.doc = NilPtr
         /\ dout.valid = FALSE

\* C9: Decode of JSON that the strict structural decoding accepts returns
\* the document, no error, and valid exactly when its checksum field equals
\* the checksum calculated from its tree (a mismatch is no error); when
\* Decode returns an error, the document is nil and valid is false.
C9_ValidIsChecksumMatch ==
    Decoded =>
       /\ DecodeContract(ParseValue(din, 1), UnmarshalBookmarks(ParseValue(din, 1).val))
       /\ dout.err # "" => dout.doc.IsNil /\ ~dout.valid

\* C9 happens: a document whose checksum field is an MD5 digest other than
\* that of its tree was decoded, without error and with valid false.
C9_Witness ==
    /\ Decoded
    /\ dout.err = ""
    /\ ~dout.valid
    /\ dout.doc.b.Checksum = Altered(MD5Hex(<<>>))
    /\ dout.doc.b.Roots.BookmarkBar.Type = NodeTypeFolder

\* C10: in every document Decode returns without error, Version is 1 and
\* every node has Type "url" or "folder".
C10_EnumerationsInSet ==
    (Decoded /\ dout.err = "") =>
       /\ dout.doc.b.Version = 1
       /\ \A n \in AllNodes(dout.doc.b) : n.Type \in {NodeTypeURL, NodeTypeFolder}

(***************************************************************************)
(* The runs in which Carve and Decode depart from C1, C3, C5, C7, C8 and  *)
(* C10.                                                                    *)
(***************************************************************************)
\* C1 fails: the source is "{", a genuine document and 1 KiB of padding,
\* read to its end, and Carve has returned nil without invoking the sink.
C1_DocumentMissed ==
    /\ layout = <<"brace", "docA", "pad">>
    /\ ~Failing
    /\ Returned
    /\ ret = ""
    /\ calls = <<>>

\* C3 fails: the second sink invocation is for a range inside the range of
\* the first.
C3_NestedMatch ==
    /\ Len(calls) = 2
    /\ calls[1].off < calls[2].off
    /\ calls[2].off + Len(calls[2].buf) < calls[1].off + Len(calls[1].buf)

\* C5 fails: the source ends right after a complete prefix, and Carve has
\* returned io.EOF.
C5_EOFReturned ==
    /\ layout = <<"prefix">>
    /\ ~Failing
    /\ Returned
    /\ ret = ErrEOF

\* C7 fails: the sink was invoked after a read error that Carve met during
\* the structural decode of an earlier candidate.
C7_CallAfterReadError ==
    /\ lost # <<>>
    /\ lost[1].err = ErrIO
    /\ Len(calls) > lost[1].calls

\* C8 fails: the sink was given a buf that does not contain the
\* confirmation literal.
C8_BufWithoutMarker ==
    /\ calls # <<>>
    /\ HasPrefix(LastCall.buf, s1)
    /\ ~Contains(LastCall.buf, s2)

\* C10 fails: Decode has returned, without error, a document whose Version
\* is 0 and whose roots have the Type "".
C10_ZeroEnumerations ==
    /\ Decoded
    /\ dout.err = ""
    /\ dout.doc.b.Version = 0
    /\ dout.doc.b.Roots.BookmarkBar.Type = <<>>

(***************************************************************************)
(* The field names of the schema, and the names of a JSON document that   *)
(* are none of them.                                                       *)
(***************************************************************************)
TopNames ==
    {B_checksum, B_roots, B_sync_metadata, B_version, B_meta_info,
     B_unsynced_meta_info}

RootNames == {B_bookmark_bar, B_other, B_synced}

NodeNames ==
    {B_children, B_date_added, B_date_last_used, B_date_modified, B_guid, B_id,
     B_name, B_show_icon, B_source, B_type, B_url, B_meta_info,
     B_unsynced_meta_info}

\* The name k as it is compared with the schema: as written, or with its
\* letters in lower case.
NameAs(k, folded) == IF folded THEN Lower(k) ELSE k

RECURSIVE StrayInNode(_, _)
\* The node object v, or a node below it, has a member that names no field.
StrayInNode(v, folded) ==
    /\ v.k = "obj"
    /\ \E i \in 1..Len(v.items) :
          \/ NameAs(v.items[i][1], folded) \notin NodeNames
          \/ /\ Lower(v.items[i][1]) = B_children
             /\ v.items[i][2].k = "arr"
             /\ \E j \in 1..Len(v.items[i][2].items) :
                   StrayInNode(v.items[i][2].items[j], folded)

\* The roots object v has a member that names no root, or a stray name in a
\* node.
StrayInRoots(v, folded) ==
    /\ v.k = "obj"
    /\ \E i \in 1..Len(v.items) :
          \/ NameAs(v.items[i][1], folded) \notin RootNames
          \/ StrayInNode(v.items[i][2], folded)

\* The document object v has, at some depth, a member where a field is
\* expected that names no field of the schema.
StrayInDocument(v, folded) ==
    /\ v.k = "obj"
    /\ \E i \in 1..Len(v.items) :
          \/ NameAs(v.items[i][1], folded) \notin TopNames
          \/ /\ Lower(v.items[i][1]) = B_roots
             /\ StrayInRoots(v.items[i][2], folded)

\* Decode has returned an error and no document.
DecodeFailed == dout.err # "" /\ dout.doc = NilPtr /\ ~dout.valid

\* The input of Decode is one JSON value with a stray name.
StrayInput(p, folded) == p.err = "" /\ StrayInDocument(p.val, folded)

\* C11: whenever the JSON given to Decode has, at the top level, inside
\* roots or inside a node at any depth, a field name that is not a name of
\* the schema, Decode returns an error and no document.
C11_UnknownFieldRejected ==
    (Decoded /\ StrayInput(ParseValue(din, 1), FALSE)) => DecodeFailed

\* C11 fails: a document of TreeA with its matching checksum and the extra
\* top-level member "VERSION" was decoded without error, and is valid.
C11_CapitalNameAccepted ==
    /\ Decoded
    /\ din = InjectedDoc("top", ExtraMember("upper", "top"))
    /\ dout.err = ""
    /\ dout.valid

\* The part of C11 that holds: a field name that is no name of the schema
\* even with its letters in lower case makes Decode fail.
UnknownFieldRejected ==
    (Decoded /\ StrayInput(ParseValue(din, 1), TRUE)) => DecodeFailed

\* A document with the member "foo" in the child of bookmark_bar was
\* rejected.
DeepUnknownFieldRejected ==
    /\ Decoded
    /\ din = InjectedDoc("child", ExtraMember("foo", "child"))
    /\ dout.err = ErrUnknownField

\* C12: in every document Decode returns without error, a node has
\* children present exactly when its type is "folder".
C12_ChildrenIffFolder ==
    (Decoded /\ dout.err = "") =>
       \A n \in AllNodes(dout.doc.b) : n.HasChildren <=> (n.Type = NodeTypeFolder)

\* C12 fails: Decode has returned, without error, a document whose
\* bookmark_bar is a url node with a children sequence.
C12_URLNodeWithChildren ==
    /\ Decoded
    /\ dout.err = ""
    /\ dout.doc.b.Roots.BookmarkBar.Type = NodeTypeURL
    /\ dout.doc.b.Roots.BookmarkBar.HasChildren
    /\ Len(dout.doc.b.Roots.BookmarkBar.Children) = 1

(***************************************************************************)
(* Properties of CalculateChecksum and Walk.                               *)
(***************************************************************************)
\* The decimal numerals of one or two digits.
Numerals == UNION {[1..k -> 48..57] : k \in 1..2}

RECURSIVE NumeralValue(_)
NumeralValue(d) ==
    IF d = <<>> THEN 0
    ELSE 10 * NumeralValue(SubSeq(d, 1, Len(d) - 1)) + (d[Len(d)] - 48)

\* The decimal string of n: the numeral without leading zero that denotes it.
Decimal(n) ==
    CHOOSE d \in Numerals : NumeralValue(d) = n /\ (Len(d) = 1 \/ d[1] # 48)

RECURSIVE CodePoints(_)
\* The code points of a UTF-8 string of one- and two-byte sequences.
CodePoints(s) ==
    IF s = <<>> THEN <<>>
    ELSE IF s[1] < 128 THEN <<s[1]>> \o CodePoints(Tail(s))
    ELSE <<(s[1] % 32) * 64 + (s[2] % 64)>> \o CodePoints(Tail(Tail(s)))

\* s as UTF-16 little-endian: two bytes per code unit, low byte first.
UTF16LE(s) ==
    LET cps == CodePoints(s)
    IN  Concat([i \in 1..Len(cps) |-> <<cps[i] % 256, cps[i] \div 256>>])

RECURSIVE PreOrder(_)
\* Node n and the nodes below it, reached through the children of folder
\* nodes: a node before its children, the children from left to right.
PreOrder(n) ==
    <<n>> \o (IF n.Type = NodeTypeFolder
              THEN Concat([i \in 1..Len(n.Children) |-> PreOrder(n.Children[i])])
              ELSE <<>>)

\* The nodes of b: the bookmark_bar subtree, then other, then synced.
DocumentOrder(b) ==
    PreOrder(b.Roots.BookmarkBar) \o PreOrder(b.Roots.Other)
      \o PreOrder(b.Roots.MobileBookmark)

\* What one node is to contribute to the hash.
Contribution(n) ==
    Decimal(n.ID) \o UTF16LE(n.Name) \o n.Type
      \o (IF n.Type = NodeTypeURL THEN n.URL ELSE <<>>)

\* The byte string whose MD5 sum the checksum is to be.
HashedString(b) ==
    LET ns == DocumentOrder(b)
    IN  Concat([i \in 1..Len(ns) |-> Contribution(ns[i])])

\* s is a lowercase hex MD5 digest.
IsDigest(s) ==
    Len(s) = 32 /\ \A i \in 1..32 : s[i] \in (48..57) \cup (97..102)

RECURSIVE SameHashedFields(_, _)
\* The trees under m and n have the same shape and agree, node by node, on
\* id, name, type and, for url nodes, url.
SameHashedFields(m, n) ==
    /\ m.ID = n.ID /\ m.Name = n.Name /\ m.Type = n.Type
    /\ m.Type = NodeTypeURL => m.URL = n.URL
    /\ Len(m.Children) = Len(n.Children)
    /\ \A i \in 1..Len(m.Children) : SameHashedFields(m.Children[i], n.Children[i])

\* Documents a and b agree on everything the checksum is to cover.
SameHashedTree(a, b) ==
    /\ SameHashedFields(a.Roots.BookmarkBar, b.Roots.BookmarkBar)
    /\ SameHashedFields(a.Roots.Other, b.Roots.Other)
    /\ SameHashedFields(a.Roots.MobileBookmark, b.Roots.MobileBookmark)

\* C14: two documents of the same tree shape that agree node by node on
\* id, name, type and (url nodes) url have the same checksum, whatever
\* their other fields hold.
C14_OtherFieldsNotHashed ==
    (lpc = "done" /\ SameHashedTree(lin[1], lin[2])) => lout[1] = lout[2]

\* Two documents that differ in every field the checksum does not cover,
\* on the root and on a node below it, got the same digest.
C14_Witness ==
    /\ lpc = "done"
    /\ lin[1] = TreeC
    /\ lin[2] = AlterAll(AlterAll(TreeC, "root", OtherFields \cup TopFields),
                         "child", OtherFields)
    /\ lin[2].Roots.BookmarkBar.URL # <<>>
    /\ lin[2].Roots.BookmarkBar.Children[1].GUID # lin[1].Roots.BookmarkBar.Children[1].GUID
    /\ lin[2].Checksum # lin[1].Checksum
    /\ IsDigest(lout[1]) /\ lout[1] = lout[2]

RECURSIVE Below(_)
\* Node n and the nodes reachable from it through the children of folders.
Below(n) ==
    {n} \cup (IF n.Type = NodeTypeFolder
              THEN UNION {Below(n.Children[i]) : i \in 1..Len(n.Children)}
              ELSE {})

\* The nodes reachable from the three roots of b.
Reachable(b) ==
    Below(b.Roots.BookmarkBar) \cup Below(b.Roots.Other)
      \cup Below(b.Roots.MobileBookmark)

\* The visits at which node n was given to the visitor.
VisitsOf(n) == {i \in 1..Len(lout.seen) : lout.seen[i].n = n}

\* The visit of node n.
Pos(n) == CHOOSE i \in VisitsOf(n) : TRUE

\* Every node of set S was visited before every node of set T.
AllBefore(S, T) == \A m \in S, n \in T : Pos(m) < Pos(n)

\* b.Walk(fn) has returned, fn being a visitor that always returns nil.
WalkedAll ==
    lpc = "done" /\ lin.on = "Bookmarks" /\ ~lin.fn.IsNil /\ lin.fn.at = 0

\* C15: Bookmarks.Walk with a visitor that always returns nil visits every
\* node reachable from the three roots exactly once: the bookmark_bar
\* subtree, then other, then synced, a node before its children and the
\* children (each with its subtree) from left to right.
C15_PreOrderOverRoots ==
    WalkedAll =>
      /\ \A i \in 1..Len(lout.seen) : lout.seen[i].n \in Reachable(lin.b)
      /\ \A n \in Reachable(lin.b) : Cardinality(VisitsOf(n)) = 1
      /\ AllBefore(Below(lin.b.Roots.BookmarkBar), Below(lin.b.Roots.Other))
      /\ AllBefore(Below(lin.b.Roots.Other), Below(lin.b.Roots.MobileBookmark))
      /\ \A n \in Reachable(lin.b) :
            n.Type = NodeTypeFolder =>
              \A i \in 1..Len(n.Children) :
                 /\ Pos(n) < Pos(n.Children[i])
                 /\ \A j \in (i + 1)..Len(n.Children) :
                       AllBefore(Below(n.Children[i]), {n.Children[j]})
      /\ lout.err = ""

\* The three-level tree was walked: its eight nodes, ids 1 to 7 and 10.
C15_Witness ==
    /\ WalkedAll /\ lin.b = TreeC
    /\ [i \in 1..Len(lout.seen) |-> lout.seen[i].n.ID] = <<1, 2, 3, 4, 5, 6, 7, 10>>

\* The root of b that node n is under.
RootOf(b, n) ==
    CHOOSE r \in {b.Roots.BookmarkBar, b.Roots.Other, b.Roots.MobileBookmark} :
        n \in Below(r)

RECURSIVE AncestorNames(_, _)
\* The names of the ancestors of n, from m (an ancestor of n, or n itself)
\* down to the direct parent of n.
AncestorNames(m, n) ==
    IF m = n THEN <<>>
    ELSE LET i == CHOOSE k \in 1..Len(m.Children) : n \in Below(m.Children[k])
         IN  <<m.Name>> \o AncestorNames(m.Children[i], n)

\* C16: at every visit of Walk, parents is the names of the visited node's
\* ancestors from the root of the walk down to its direct parent: empty for
\* a root, [root name] for a child of a root, never the node's own name.
C16_ParentsAreAncestors ==
    (lpc = "done" /\ lin.on = "Bookmarks") =>
      \A i \in 1..Len(lout.seen) :
          lout.seen[i].parents =
             AncestorNames(RootOf(lin.b, lout.seen[i].n), lout.seen[i].n)

\* C16 fails: the bookmark "a" under the root "b" was visited with parents
\* holding its own name and not the name of the root.
C16_OwnNameInParents ==
    /\ WalkedAll /\ lin.b = TreeA
    /\ lout.seen[2].n.Name = <<97>>
    /\ lout.seen[2].n \in {lin.b.Roots.BookmarkBar.Children[i] : i \in 1..1}
    /\ lin.b.Roots.BookmarkBar.Name = <<98>>
    /\ lout.seen[2].parents = <<<<97>>>>

\* The order a walk that is never stopped visits the nodes in.
FullWalk ==
    IF lin.on = "Bookmarks" THEN DocumentOrder(lin.b)
    ELSE PreOrder(lin.b.Roots.BookmarkBar)

\* The nodes visited, in order.
Visited == [i \in 1..Len(lout.seen) |-> lout.seen[i].n]

\* Walk has returned and its visitor returned an error at some visit.
WalkStopped ==
    /\ lpc = "done" /\ ~lin.fn.IsNil
    /\ lin.fn.at \in 1..Len(FullWalk)

\* C17: when the visitor returns ErrBreak, Bookmarks.Walk and
\* BookmarkNode.Walk visit no further node and return nil; when it returns
\* another error, no further node is visited and that error is returned.
C17_VisitorStopsWalk ==
    WalkStopped =>
      /\ Visited = SubSeq(FullWalk, 1, lin.fn.at)
      /\ lout.err = (IF lin.fn.err = ErrBreak THEN "" ELSE lin.fn.err)

\* ErrBreak at the third visit of the three-level tree, with a sibling, a
\* sibling of the parent and two more roots left to visit.
C17_Witness ==
    /\ WalkStopped /\ lin.on = "Bookmarks" /\ lin.b = TreeC
    /\ lin.fn.at = 3 /\ lin.fn.err = ErrBreak
    /\ Len(lout.seen) = 3 /\ Len(FullWalk) = 8 /\ lout.err = ""

(***************************************************************************)
(* Properties of Encode.                                                   *)
(***************************************************************************)
\* Encode has written document lin and Decode has read it back.
RoundTrip == lpc = "done" /\ lout.err = "" /\ dpc = "done"

\* The document given to Encode carries its own checksum.
SignedInput == ~lin.IsNil /\ lin.b.Checksum = CalculateChecksum(lin.b)

\* C18: for a document d whose checksum field is CalculateChecksum(d) and
\* that Encode accepts, Decode of the encoding returns no error, the same
\* checksum field and valid = TRUE.
C18_RoundTripStaysValid ==
    (RoundTrip /\ SignedInput) =>
       /\ dout.err = ""
       /\ dout.doc.b.Checksum = lin.b.Checksum
       /\ dout.valid

\* C18 fails: a bookmark whose URL holds a byte that is not valid UTF-8 was
\* encoded and read back with another URL, and the document is not valid.
C18_URLRewritten ==
    /\ RoundTrip /\ SignedInput
    /\ lin.b = Signed(AlterTree(Complete(TreeA), "child", "ByteURL"))
    /\ dout.err = "" /\ dout.doc.b.Checksum = lin.b.Checksum
    /\ dout.doc.b.Roots.BookmarkBar.Children[1].URL = <<117, 58, 239, 191, 189>>
    /\ ~dout.valid

\* All strings of document b that the checksum covers as bytes are valid
\* UTF-8: the URLs of its url nodes.
ValidURLs(b) ==
    \A n \in Reachable(b) : n.Type = NodeTypeURL => ToValidUTF8(n.URL) = n.URL

\* The round trip keeps a signed document valid when its hashed URLs are
\* valid UTF-8.
RoundTripOfValidText ==
    (RoundTrip /\ SignedInput /\ ValidURLs(lin.b)) =>
       /\ dout.err = ""
       /\ dout.doc.b.Checksum = lin.b.Checksum
       /\ dout.valid

\* The value of member key of the JSON object v; of kind "absent" when v
\* has no such member.
MemberOf(v, key) ==
    IF \E i \in 1..Len(v.items) : v.items[i][1] = key
    THEN v.items[CHOOSE i \in 1..Len(v.items) : v.items[i][1] = key][2]
    ELSE JVal("absent", <<>>, <<>>)

\* The JSON value Encode wrote.
WrittenValue == ParseValue(lout.out, 1).val

\* C19: Encode followed by Decode keeps the state of sync_metadata: nil is
\* written as null and read back as nil, present-but-empty is written as an
\* empty string and read back as present-but-empty.
C19_SyncMetadataStateKept ==
    (RoundTrip /\ ~lin.IsNil /\ lin.b.SyncMetadata.B = <<>>) =>
       /\ dout.err = ""
       /\ dout.doc.b.SyncMetadata = lin.b.SyncMetadata
       /\ MemberOf(WrittenValue, B_sync_metadata) =
             (IF lin.b.SyncMetadata.IsNil THEN JNull ELSE JStr(<<>>))

\* C19 fails: a document whose sync_metadata is present but empty was
\* written without the member and read back with sync_metadata nil.
C19_EmptyBecomesAbsent ==
    /\ RoundTrip /\ ~lin.IsNil
    /\ lin.b.SyncMetadata = [IsNil |-> FALSE, B |-> <<>>]
    /\ MemberOf(WrittenValue, B_sync_metadata).k = "absent"
    /\ dout.err = "" /\ dout.doc.b.SyncMetadata = NilBytes

\* sync_metadata that holds bytes is written in base64 and read back.
SyncMetadataBytesKept ==
    (RoundTrip /\ ~lin.IsNil /\ lin.b.SyncMetadata.B # <<>>) =>
       /\ dout.err = ""
       /\ dout.doc.b.SyncMetadata = lin.b.SyncMetadata
       /\ MemberOf(WrittenValue, B_sync_metadata).k = "str"

\* Encode finds nothing wrong with the fields of b other than the times:
\* the version, and the GUID, type and source of every node.
OtherFieldsEncodable(b) ==
    /\ VersionValid(b.Version) = ""
    /\ \A n \in AllNodes(b) :
          /\ GUIDValid(n.GUID) = "" /\ NodeTypeValid(n.Type) = ""
          /\ n.Source = <<>> \/ SourceValid(n.Source) = ""

\* Some node of b has a timestamp that is zero.
HasZeroTime(b) ==
    \E n \in AllNodes(b) : 0 \in {n.DateAdded, n.DateLastUsed, n.DateModified}

RECURSIVE ZeroTimesUnset(_, _)
\* In the JSON object v written for node n, and in those written for the
\* nodes below it, a timestamp that is zero is null or left out.
ZeroTimesUnset(n, v) ==
    /\ n.DateAdded = 0 => MemberOf(v, B_date_added).k \in {"null", "absent"}
    /\ n.DateLastUsed = 0 => MemberOf(v, B_date_last_used).k \in {"null", "absent"}
    /\ n.DateModified = 0 => MemberOf(v, B_date_modified).k \in {"null", "absent"}
    /\ \A i \in 1..Len(n.Children) :
          ZeroTimesUnset(n.Children[i], MemberOf(v, B_children).items[i])

\* C20: Encode of a document with a zero node timestamp (date_added,
\* date_last_used or date_modified) succeeds and writes that field as null
\* or leaves it out.
C20_ZeroTimeEncodes ==
    (lpc = "done" /\ ~lin.IsNil /\ OtherFieldsEncodable(lin.b)
       /\ HasZeroTime(lin.b)) =>
       /\ lout.err = ""
       /\ ZeroTimesUnset(lin.b.Roots.BookmarkBar,
             MemberOf(MemberOf(WrittenValue, B_roots), B_bookmark_bar))
       /\ ZeroTimesUnset(lin.b.Roots.Other,
             MemberOf(MemberOf(WrittenValue, B_roots), B_other))
       /\ ZeroTimesUnset(lin.b.Roots.MobileBookmark,
             MemberOf(MemberOf(WrittenValue, B_roots), B_synced))

\* C20 fails: Encode of a document that is in order but for the zero
\* date_added of its bookmark_bar returned an error and wrote nothing.
C20_ZeroDateAddedFails ==
    /\ lpc = "done"
    /\ lin = Ptr(AlterTree(Signed(Complete(TreeA)), "root", "NoDateAdded"))
    /\ OtherFieldsEncodable(lin.b)
    /\ lin.b.Roots.BookmarkBar.DateAdded = 0
    /\ lout.err = ErrMarshalerEOF /\ lout.out = <<>>

\* Where date_added is set on every node, Encode succeeds and leaves out
\* the other two timestamps that are zero.
ZeroOptionalTimesOmitted ==
    (lpc = "done" /\ ~lin.IsNil /\ OtherFieldsEncodable(lin.b)
       /\ \A n \in AllNodes(lin.b) : n.DateAdded # 0) =>
       /\ lout.err = ""
       /\ ZeroTimesUnset(lin.b.Roots.BookmarkBar,
             MemberOf(MemberOf(WrittenValue, B_roots), B_bookmark_bar))

(***************************************************************************)
(* Properties of the GUID methods.                                         *)
(***************************************************************************)
\* The positions (from 0) of the dashes of a GUID, and the other 32.
DashPositions == {8, 13, 18, 23}
DigitPositions == (0..35) \ DashPositions

\* c is one of 0-9, a-f, A-F.
HexChar(c) == c \in (48..57) \cup (97..102) \cup (65..70)

\* s has not the shape of a GUID: 36 bytes with dashes in their places.
Misshapen(s) == Len(s) # 36 \/ \E p \in DashPositions : s[p + 1] # 45

\* C21: GUID.Bytes and GUID.Valid fail with "invalid guid format" exactly
\* when the length is not 36 or one of positions 8, 13, 18, 23 is not a
\* dash; otherwise with "invalid guid hex char" exactly when one of the
\* other 32 positions is no hexadecimal digit; otherwise they succeed and
\* String() is the input in lower case.
C21_GUIDParsing ==
    lpc = "done" =>
      /\ lout.err = lout.verr
      /\ lout.err = ErrGUIDFormat <=> Misshapen(lin)
      /\ lout.err = ErrGUIDHex <=>
            (~Misshapen(lin) /\ \E p \in DigitPositions : ~HexChar(lin[p + 1]))
      /\ lout.err \in {"", ErrGUIDFormat, ErrGUIDHex}
      /\ lout.err = "" =>
            lout.str = [i \in 1..36 |-> IF lin[i] \in 65..90 THEN lin[i] + 32
                                        ELSE lin[i]]

\* A GUID with capital digits was parsed and written in lower case.
C21_Witness ==
    /\ lpc = "done" /\ lout.err = ""
    /\ \E i \in 1..36 : lin[i] \in 65..70
    /\ lout.str # lin
    /\ lout.u[1] = 1 /\ lout.u[16] = 103

(***************************************************************************)
(* The prefix matcher of Carve and the occurrences of the prefix.          *)
(***************************************************************************)
\* The whole prefix literal stands in the source at offset p and can be read.
PrefixAt(p) ==
    /\ 0 <= p
    /\ p + Len(s1) <= Readable
    /\ SubSeq(f, p + 1, p + Len(s1)) = s1

\* Offset p lies inside the range of a match already given to the sink.
InsideReported(p) ==
    \E i \in 1..Len(calls) :
       calls[i].off < p /\ p < calls[i].off + Len(calls[i].buf)

\* The matcher has consumed the first byte of the prefix occurrence at p
\* and stands before a later byte of it, with a new pass of the prefix loop
\* to start there: no pass can end with the cursor at p + len(s1) any more,
\* since the cursor does not go back.
SkippedAt(p) ==
    /\ PrefixAt(p)
    /\ ~InsideReported(p)
    /\ pc = "scan"
    /\ p < off
    /\ off < p + Len(s1)

\* C22: the prefix matcher detects every occurrence of the prefix literal:
\* no pass of the prefix loop starts with the cursor past the first byte of
\* an occurrence at p (outside every reported match) and short of
\* p + len(s1), so the candidate step is reached with the cursor at
\* p + len(s1) for each of them; a mismatching byte that starts an
\* occurrence is not skipped.
C22_EveryPrefixDetected == \A p \in 0..Len(f) : ~SkippedAt(p)

\* C22 fails: a '{' comes right before a prefix occurrence at offset 1; the
\* pass that matched the '{' has consumed the occurrence's own '{' as its
\* mismatching byte, and the next pass starts at offset 2.
C22_PrefixSkipped ==
    /\ SkippedAt(1)
    /\ f[1] = 123
    /\ off = 2
    /\ calls = <<>>

(***************************************************************************)
(* The checksum and the order of siblings.                                 *)
(***************************************************************************)
\* Siblings m and n differ in a hashed field: id, name, type, or the url
\* where one of them is a url node.
DifferInHashedField(m, n) ==
    \/ m.ID # n.ID
    \/ m.Name # n.Name
    \/ m.Type # n.Type
    \/ (NodeTypeURL \in {m.Type, n.Type} /\ m.URL # n.URL)

\* What node n and the nodes below it contribute to the hash; a node that
\* is neither a url nor a folder contributes nothing.
SubtreeBytes(n) ==
    LET ns == PreOrder(n)
    IN  Concat([k \in 1..Len(ns) |->
                  IF ns[k].Type \in {NodeTypeURL, NodeTypeFolder}
                  THEN Contribution(ns[k]) ELSE <<>>])

\* The contributions of the siblings cs[i] to cs[j], in this order.
SiblingBytes(cs, i, j) == Concat([k \in 1..(j - i + 1) |-> SubtreeBytes(cs[i + k - 1])])

\* The exchange of lin has changed what was written to the hash.
StreamChanged == lout[1].h # lout[2].h

\* C23 as stated: exchanging two siblings that differ in at least one
\* hashed field (id, name, type, or url of a url node) changes the bytes
\* that CalculateChecksum writes to the hash, for every such pair.
C23_AnyExchangeChangesStream ==
    (lpc = "done" /\ DifferInHashedField(lin.cs[lin.i], lin.cs[lin.j]))
       => StreamChanged

\* C23, amended: exchanging two siblings changes the bytes written to the
\* hash exactly when the contributions of the two subtrees and of the
\* siblings between them read differently with the two exchanged; they do
\* whenever the two contributions differ and are equally long, and
\* whenever the siblings are adjacent and the contribution of one is not
\* the start of that of the other.  Nothing separates the contributions,
\* so siblings that differ in a hashed field can be exchanged without any
\* change.
C23_ExchangeChangesStreamUnlessBytesCommute ==
    lpc = "done" =>
      LET cs == lin.cs
          sw == Exchanged(lin.cs, lin.i, lin.j)
          x == SubtreeBytes(lin.cs[lin.i])
          y == SubtreeBytes(lin.cs[lin.j])
      IN  /\ StreamChanged <=>
                SiblingBytes(cs, lin.i, lin.j) # SiblingBytes(sw, lin.i, lin.j)
          /\ (x # y /\ Len(x) = Len(y)) => StreamChanged
          /\ (lin.j = lin.i + 1 /\ ~HasPrefix(x, y) /\ ~HasPrefix(y, x))
                => StreamChanged

\* A folder that holds a bookmark and a bookmark two places after it have
\* been exchanged, and the bytes written to the hash have changed.
C23_Witness ==
    /\ lpc = "done"
    /\ lin.i = 1 /\ lin.j = 3
    /\ lin.cs[1].Type = NodeTypeFolder /\ lin.cs[1].Children # <<>>
    /\ lin.cs[3].Type = NodeTypeURL
    /\ DifferInHashedField(lin.cs[1], lin.cs[3])
    /\ StreamChanged

\* C23 as stated fails: the bookmarks (1, "", "a") and (1, "", "a1urla"),
\* which differ in the url, have been exchanged and the bytes written to
\* the hash are the same, "1urla1urla1urla" among them.
C23_ExchangeUnseen ==
    /\ lpc = "done"
    /\ lin.cs = <<URLNode(1, <<>>, <<97>>),
                  URLNode(1, <<>>, <<97, 49, 117, 114, 108, 97>>)>>
    /\ DifferInHashedField(lin.cs[1], lin.cs[2])
    /\ ~StreamChanged
    /\ Contains(lout[1].h, <<49, 117, 114, 108, 97, 49, 117, 114, 108, 97,
                            49, 117, 114, 108, 97>>)

(***************************************************************************)
(* Termination of Carve.                                                   *)
(***************************************************************************)
\* A pass of the prefix loop that does not end Carve: a prefix mismatch, or
\* a match whose candidate is then rejected or accepted.
PassTaken == pc = "scan" /\ pc' # "done"

\* C24: Carve terminates on every finite source with a sink that always
\* returns: the cursor off never decreases and never passes the end of the
\* source, every iteration of the scan loop that does not return consumes
\* at least one byte not consumed before, and Carve returns in the end.
C24_CarveTerminates ==
    /\ [][off' >= off /\ (PassTaken => off' > off)]_vars
    /\ [](off <= Len(f))
    /\ <>Returned

\* Carve has returned nil at the end of a source after two sink
\* invocations, a prefix mismatch between them, and with every byte
\* consumed.
C24_Witness ==
    /\ Returned
    /\ ret = ""
    /\ layout = <<"docA", "x", "docB", "pad">>
    /\ Len(calls) = 2
    /\ off = Len(f)

(***************************************************************************)
(* The slice given to the sink, after the call.                            *)
(***************************************************************************)
\* C25: the raw byte slice given to a sink invocation keeps that match's
\* bytes for the rest of the Carve run: whatever candidates are examined
\* and whatever matches are reported later, a sink that has retained buf
\* still sees the bytes it was given.
C25_BufKeptAfterCall ==
    \A i \in 1..Len(calls) : calls[i].held = calls[i].buf

\* C25 fails: the source is document A, a byte, document B and padding; the
\* sink was given A and then B, and the slice it was given for A now shows
\* the bytes of B followed by the last bytes of A.
C25_BufOverwritten ==
    /\ layout = <<"docA", "x", "docB", "pad">>
    /\ Len(calls) = 2
    /\ calls[1].buf = GoodDoc(TreeA)
    /\ calls[2].buf = GoodDoc(TreeB)
    /\ Len(calls[2].buf) < Len(calls[1].buf)
    /\ calls[1].held =
          calls[2].buf \o SubSeq(calls[1].buf, Len(calls[2].buf) + 1,
                                 Len(calls[1].buf))
    /\ calls[1].held # calls[1].buf

=============================================================================
